---- MODULE Spec2Model ----
(***************************************************************************)
(* depy: resolution of library requirements into one version per library, *)
(* with an on-disk package cache and resolution cache shared by           *)
(* uncoordinated processes.                                                *)
(*                                                                         *)
(* Sources: src/libs/sitecustomize/package_storage.py (PackageStorage)     *)
(*          src/libs/sitecustomize/injector.py (DepyInjectorFinder)        *)
(*                                                                         *)
(* Representation.                                                         *)
(*  - A version string is the sequence of its release components,          *)
(*    "1.2.5" = <<1, 2, 5>>.  Only final releases are modelled.            *)
(*  - A spec string ("~=1.2") is a record [op, ver]; the joined spec       *)
(*    "a,b" is the sequence of its tokens.  A '*' component is Star.       *)
(*  - None is <<>> (for versions and locations).                           *)
(*  - A cache location packages/<lib>/<version>/<pyhash> is the pair       *)
(*    <<lib, version>>; one environment fingerprint is modelled.           *)
(*  - The sha256 of the requirements and the mode is the pair itself.      *)
(***************************************************************************)
EXTENDS Integers, Sequences, FiniteSets, TLC

\* ---------------------------------------------------------------- bounds
\* longest requirement list a requirement source supplies
MaxReqs == 3
\* deepest nesting of _load_requirements that is followed
MaxPasses == 3

None == <<>>
Star == -1

Procs == {"p1", "p2"}
Modes == {"strict", "newest", "legacy"}

\* ------------------------------------------------------ Version (packaging)
Comp(v, i) == IF i <= Len(v) THEN v[i] ELSE 0

MaxOf(a, b) == IF a >= b THEN a ELSE b

RECURSIVE CmpFrom(_, _, _)
CmpFrom(a, b, i) ==
    IF i > MaxOf(Len(a), Len(b)) THEN 0
    ELSE IF Comp(a, i) < Comp(b, i) THEN -1
    ELSE IF Comp(a, i) > Comp(b, i) THEN 1
    ELSE CmpFrom(a, b, i + 1)

\* Version(a) <=> Version(b): release components compared numerically, the
\* shorter release padded with zeros (1.0 == 1.0.0)
VersionCmp(a, b) == CmpFrom(a, b, 1)

\* ------------------------------------------------- parse_requirement_spec
HasStar(ver) == \E i \in 1..Len(ver) : ver[i] = Star

ZeroStars(ver) == [i \in 1..Len(ver) |-> IF ver[i] = Star THEN 0 ELSE ver[i]]

\* the wildcards replaced and the operator left as it is
ParseKeepOperator(version) ==
    IF version.op = "" THEN [ver |-> version.ver, op |-> "any"]
    ELSE IF version.ver # None /\ HasStar(version.ver)
         THEN [ver |-> ZeroStars(version.ver), op |-> version.op]
         ELSE [ver |-> version.ver, op |-> version.op]

\* op "" stands for a string the regular expression does not match
parse_requirement_spec(version) ==
    IF version.op = "" THEN [ver |-> version.ver, op |-> "any"]
    ELSE IF version.ver # None /\ HasStar(version.ver)
         THEN [ver |-> ZeroStars(version.ver),
               op  |-> IF version.op = "==" THEN "~=" ELSE version.op]
         ELSE [ver |-> version.ver, op |-> version.op]

\* ------------------------------------------------------- compare_versions
KnownOps == {"==", "~=", "<", ">", "<=", ">=", "!="}

\* ~= that looks at the major component only
CompatibleMajorOnly(version1, operation, version2) ==
    CASE operation = "==" -> VersionCmp(version1, version2) = 0
      [] operation = "~=" ->
            VersionCmp(version1, version2) >= 0 /\ Len(version2) > 1
            /\ Comp(version2, 1) = Comp(version1, 1)
      [] operation = "<"  -> VersionCmp(version1, version2) < 0
      [] operation = ">"  -> VersionCmp(version1, version2) > 0
      [] operation = "<=" -> VersionCmp(version1, version2) <= 0
      [] operation = ">=" -> VersionCmp(version1, version2) >= 0
      [] operation = "!=" -> VersionCmp(version1, version2) # 0

compare_versions(version1, operation, version2) ==
    CASE operation = "==" -> VersionCmp(version1, version2) = 0
      [] operation = "~=" ->
            IF VersionCmp(version1, version2) >= 0
            THEN IF Len(version2) > 2
                 THEN Comp(version2, 1) = Comp(version1, 1)
                      /\ Comp(version2, 2) = Comp(version1, 2)
                 ELSE IF Len(version2) > 1
                      THEN Comp(version2, 1) = Comp(version1, 1)
                      ELSE FALSE
            ELSE FALSE
      [] operation = "<"  -> VersionCmp(version1, version2) < 0
      [] operation = ">"  -> VersionCmp(version1, version2) > 0
      [] operation = "<=" -> VersionCmp(version1, version2) <= 0
      [] operation = ">=" -> VersionCmp(version1, version2) >= 0
      [] operation = "!=" -> VersionCmp(version1, version2) # 0

\* ------------------------------------------------- _match_py_requirements
\* one requirement spec against one version (the body of the inner loop)
ReqMatches(req, ver) ==
    IF req.op = "any" THEN TRUE ELSE compare_versions(ver, req.op, req.ver)

\* the inner loop over requirement_specs for one version: the version is
\* added on a match and removed, with a break, on the first mismatch
RECURSIVE MatchLoop(_, _, _, _)
MatchLoop(ver, specs, i, inSet) ==
    IF i > Len(specs) THEN inSet
    ELSE IF ReqMatches(parse_requirement_spec(specs[i]), ver)
         THEN MatchLoop(ver, specs, i + 1, TRUE)
         ELSE FALSE

\* the versions that match some spec of the list (a match on any one spec)
MatchAnyOf(requirements, versions) ==
    {v \in versions : \E i \in 1..Len(requirements) :
        ReqMatches(parse_requirement_spec(requirements[i]), v)}

\* matching_versions: the versions that match every spec of the list
match_py_requirements(requirements, versions) ==
    {v \in versions : MatchLoop(v, requirements, 1, FALSE)}

\* ---------------------------------------------------- _get_proper_version
IsHighest(v, S) == v \in S /\ \A w \in S : VersionCmp(w, v) <= 0

IsLowest(v, S) == v \in S /\ \A w \in S : VersionCmp(w, v) >= 0

\* sorted(matching_versions, key=Version)[0]
LowestProperVersion(spec, versions) ==
    LET matching_versions == match_py_requirements(spec, versions) IN
    IF matching_versions = {} THEN None
    ELSE CHOOSE v \in matching_versions : IsLowest(v, matching_versions)

\* sorted(matching_versions, key=Version)[-1]
get_proper_version(spec, versions) ==
    LET matching_versions == match_py_requirements(spec, versions) IN
    IF matching_versions = {} THEN None
    ELSE CHOOSE v \in matching_versions : IsHighest(v, matching_versions)

\* ------------------------------------------------- _quick_resolve_version
\* the fast path taken on the first spec whatever the length of the list
QuickFirst(version) ==
    LET specs == parse_requirement_spec(version[1]) IN
    IF specs.op = "==" THEN specs.ver ELSE None

\* specs = version.split(','); a single == spec names the version
quick_resolve_version(version) ==
    IF Len(version) = 1
    THEN LET specs == parse_requirement_spec(version[1]) IN
         IF specs.op = "==" THEN specs.ver ELSE None
    ELSE None

\* ----------------------------------------------------------- sort_versions
sort_versions(spec1, spec2) ==
    LET parsed1 == parse_requirement_spec(spec1)
        parsed2 == parse_requirement_spec(spec2)
    IN  IF parsed1.op = "any" THEN 1
        ELSE IF parsed2.op = "any" THEN -1
        ELSE VersionCmp(parsed1.ver, parsed2.ver)

\* sorted(used_requirements, key=cmp_to_key(sort_versions), reverse=True):
\* descending, stable (equal elements keep their original order)
RECURSIVE InsertDesc(_, _)
InsertDesc(sorted, x) ==
    IF sorted = <<>> THEN <<x>>
    ELSE IF sort_versions(Head(sorted), x) < 0 THEN <<x>> \o sorted
    ELSE <<Head(sorted)>> \o InsertDesc(Tail(sorted), x)

RECURSIVE SortedNewest(_)
SortedNewest(list) ==
    IF list = <<>> THEN <<>>
    ELSE InsertDesc(SortedNewest(SubSeq(list, 1, Len(list) - 1)), list[Len(list)])

\* the list sorted whatever the mode
SortedAlways(mode, list) == SortedNewest(list)

\* used_requirements at the start of a library's relaxation loop
UsedRequirements(mode, list) ==
    IF mode = "newest" THEN SortedNewest(list) ELSE list

\* a pop that removes nothing
PopNothing(list) == list

\* used_requirements.pop()
Pop(list) == SubSeq(list, 1, Len(list) - 1)

\* ---------------------------------------------------- _combine_requirements
Lookup(d, k) == IF k \in DOMAIN d THEN d[k] ELSE <<>>

InList(x, list) == \E i \in 1..Len(list) : list[i] = x

\* the library's list replaced by the new spec
ReplaceOne(req, existing) ==
    [k \in (DOMAIN existing) \cup {req.lib} |->
        IF k = req.lib THEN <<req.spec>> ELSE existing[k]]

\* the spec appended whether or not it is in the list
AppendAlways(req, existing) ==
    [k \in (DOMAIN existing) \cup {req.lib} |->
        IF k = req.lib THEN Append(Lookup(existing, req.lib), req.spec) ELSE existing[k]]

\* one requirement: a new key, or the spec appended if it is not in the list
CombineOne(req, existing) ==
    LET cur == Lookup(existing, req.lib) IN
    [k \in (DOMAIN existing) \cup {req.lib} |->
        IF k = req.lib
        THEN IF InList(req.spec, cur) THEN cur ELSE Append(cur, req.spec)
        ELSE existing[k]]

RECURSIVE combine_requirements(_, _)
combine_requirements(input_requirements, existing_requirements) ==
    IF input_requirements = <<>> THEN existing_requirements
    ELSE combine_requirements(Tail(input_requirements),
                              CombineOne(Head(input_requirements), existing_requirements))

\* ------------------------------------------------------------- universe
\* library names as written in requirement sources ("A" and "a" name the
\* same library), and name.lower()
Libs == {"A", "a", "b", "c"}

Lower(name) == IF name = "A" THEN "a" ELSE name

\* sorted(combined_reqs.keys()): upper case sorts before lower case
LibOrder == <<"A", "a", "b", "c">>

\* the versions the package index lists (pip index versions); the index
\* does not tell the spellings of a name apart
Available(name) ==
    CASE Lower(name) = "a" -> {<<1, 0>>, <<1, 2, 5>>, <<2, 0>>}
      [] Lower(name) = "b" -> {<<2, 0>>, <<2, 9>>, <<3, 0>>}
      [] OTHER             -> {<<1, 0>>}

\* the Requires-Dist lines of a package version (its .dependencies file)
Tok(op, ver) == [op |-> op, ver |-> ver]

Req(lib, op, ver) == [lib |-> lib, spec |-> Tok(op, ver)]

Manifest(name, ver) ==
    IF Lower(name) = "a" /\ ver = <<1, 0>> THEN <<Req("b", ">=", <<2, 0>>)>>
    ELSE IF Lower(name) = "b" /\ ver = <<3, 0>> THEN <<Req("c", "any", None)>>
    ELSE IF Lower(name) = "c" /\ ver = <<1, 0>>
         THEN <<Req("b", "<", <<3, 0>>), Req("a", "any", None)>>
    ELSE <<>>

\* pip install name==version succeeds iff the index has that version
FetcherHas(name, ver) == \E a \in Available(name) : VersionCmp(a, ver) = 0

\* etc/library_modifications.json: if a ~=1.2 and b <3.0 then force b to 3.0
library_modifications ==
    [a |-> [op |-> "~=", version |-> <<1, 2>>,
            comparison |-> [name |-> "b", op |-> "<", version |-> <<3, 0>>,
                            new_version |-> <<3, 0>>]]]

\* what a requirement source may hold
InputReqs ==
    { Req("a", "any", None), Req("a", "==", <<1, 0>>), Req("a", "==", <<9, 9>>),
      Req("a", "==", <<1, 2, 5>>), Req("a", "~=", <<1, 2>>),
      Req("b", "==", <<2, 9>>), Req("b", "any", None) }

\* the requirement lists a source supplies: no line twice
ReqLists ==
    {l \in UNION {[1..n -> InputReqs] : n \in 1..MaxReqs} :
        \A i, j \in 1..Len(l) : i # j => l[i] # l[j]}

\* ----------------------------------------------------------- file system
\* a directory: id names the inode (<<>>: the path does not exist), files the
\* entries in it, data the content of its resolution file
Absent == [id |-> <<>>, files |-> {}, data |-> <<>>]

Dir(fs, k) == IF k \in DOMAIN fs THEN fs[k] ELSE Absent

Put(fs, k, d) == [x \in (DOMAIN fs) \cup {k} |-> IF x = k THEN d ELSE fs[x]]

Exists(d) == d.id # <<>>

\* is_cached: (path / '.cached').exists()
is_cached(d) == Exists(d) /\ ".cached" \in d.files

PkgFiles(name, ver) ==
    {"files", ".cached"} \cup (IF Manifest(name, ver) # <<>> THEN {".dependencies"} ELSE {})

ReqFiles == {"resolution", ".cached"}

Published(name, ver) ==
    [id |-> <<"init", 0>>, files |-> PkgFiles(name, ver), data |-> <<>>]

VARIABLES
    pkg,            \* packages/<lib>/<version>/<pyhash>: <<lib, version>> -> directory
    reqs,           \* requirements/<hash>: <<requirements, mode>> -> directory
    installedFile,  \* packages/<lib>/.installed: lib -> [exists, vers]
    proc            \* per process: the resolver's local state

vars == <<pkg, reqs, installedFile, proc>>

NoFile == [exists |-> FALSE, vers |-> {}]

\* os.environ.get('DEPY_BYPASS_CACHE') is "" when the variable is unset.  The
\* environment of a process does not change; its value is drawn when the code
\* first reads it and kept from then on.
NotRead == "not read"

BypassValues(s) == IF s.bypass = NotRead THEN {"1", ""} ELSE {s.bypass}

\* the locals of DepyInjectorFinder and of the running calls; attempts, round,
\* read, inserted, source, fired, fetches, tried, failed, run, prev, prevInput,
\* prevMode, invoked (the round in which storage.cache was called for a
\* requirement) and again (it was called a second time) record what happened
\* (no code reads them); nextInput and nextMode are the requirements and
\* DEPY_MODE of the program's next run
Fresh(mode, bypass, input, pc) ==
    [pc |-> pc, mode |-> mode, bypass |-> bypass, input |-> input,
     pass |-> 0, requirements |-> <<>>, usingCache |-> FALSE,
     combined_reqs |-> <<>>, current_reqs |-> <<>>, processed_reqs |-> <<>>,
     processed_files |-> {}, locations |-> <<>>, errors |-> <<>>,
     todo |-> <<>>, lib |-> "", used |-> <<>>, spec |-> <<>>, location |-> None,
     attempts |-> 0, round |-> 0, depsTodo |-> <<>>, read |-> {}, inserted |-> <<>>,
     cname |-> "", cspec |-> <<>>, cver |-> None, seen |-> {}, source |-> "",
     tempN |-> 0, tempOk |-> FALSE, rmId |-> <<>>, rmList |-> {}, rmRet |-> "",
     resolved |-> <<>>, refresh |-> FALSE, fired |-> FALSE,
     lib_metadata |-> <<>>, tempDir |-> FALSE, fetches |-> 0,
     tried |-> {}, failed |-> {}, run |-> 1, prev |-> <<>>,
     prevInput |-> <<>>, prevMode |-> "", nextInput |-> input, nextMode |-> mode,
     invoked |-> <<>>, again |-> FALSE]

\* ------------------------------------------ _load_requirements (start)
\* the hash taken over the Combined Requirement Set
HashOfCombined(requirements, mode) == <<combine_requirements(requirements, <<>>), mode>>

\* sha256(str(requirements) + CONFLICT_RESOLUTION_MODE)
RequirementsHash(requirements, mode) == <<requirements, mode>>

\* the locals of _install_requirements before its while loop
StartLoop(s, requirements, usingCache) ==
    LET combined == combine_requirements(requirements, <<>>) IN
    [s EXCEPT !.pc = "round", !.requirements = requirements,
              !.usingCache = usingCache, !.locations = <<>>, !.errors = <<>>,
              !.combined_reqs = combined, !.current_reqs = combined,
              !.processed_reqs = <<>>, !.round = 0, !.read = {},
              !.inserted = requirements, !.todo = <<>>, !.lib = "",
              !.tried = {}, !.failed = {}, !.invoked = <<>>, !.again = FALSE,
              !.used = <<>>, !.spec = <<>>, !.location = None, !.attempts = 0]

\* _load_requirements down to the is_cached test of _install_requirements
Load(p) ==
    LET s == proc[p]
        t == [s EXCEPT !.pass = @ + 1, !.requirements = s.input,
                       !.processed_files = {}, !.refresh = FALSE]
    IN  /\ s.pc = "load"
        /\ s.pass < MaxPasses
        /\ proc' = [proc EXCEPT ![p] =
               IF is_cached(Dir(reqs, RequirementsHash(s.input, s.mode)))
               THEN [t EXCEPT !.pc = "ir_read"]
               ELSE StartLoop(t, s.input, FALSE)]
        /\ UNCHANGED <<pkg, reqs, installedFile>>

\* a read that never finds a resolution
ReadNothing(bypass, d) == None

\* the content of a resolution file that json.load rejects
Unparsable == <<[lib |-> "", spec |-> [op |-> "", ver |-> <<>>], version |-> <<>>]>>

\* _read_resolved_requirements: None when the variable is set, when the file
\* cannot be opened and when json.load fails
read_resolved_requirements(bypass, d) ==
    IF bypass THEN None
    ELSE IF "resolution" \in d.files /\ d.data # Unparsable THEN d.data ELSE None

ReadResolved(p) ==
    LET s == proc[p] IN
    /\ s.pc = "ir_read"
    /\ \E env \in BypassValues(s) :
         LET t == [s EXCEPT !.bypass = env]
             resolved_requirements ==
                 read_resolved_requirements(env # "",
                                            Dir(reqs, RequirementsHash(s.input, s.mode)))
         IN  proc' = [proc EXCEPT ![p] =
                 IF resolved_requirements # <<>>
                 THEN StartLoop(t, resolved_requirements, TRUE)
                 ELSE StartLoop(t, s.input, FALSE)]
    /\ UNCHANGED <<pkg, reqs, installedFile>>

\* ------------------------------------------ _install_requirements (loop)
SortedKeys(d) == SelectSeq(LibOrder, LAMBDA k : k \in DOMAIN d)

\* while processing: processing = False; for req in sorted(combined_reqs.keys())
Round(p) ==
    LET s == proc[p] IN
    /\ s.pc = "round"
    /\ proc' = [proc EXCEPT ![p] =
           [s EXCEPT !.pc = "lib", !.todo = SortedKeys(s.combined_reqs),
                     !.round = @ + 1, !.tried = {}, !.failed = {}]]
    /\ UNCHANGED <<pkg, reqs, installedFile>>

\* the manifests walked after every for loop, restored from the cache or not
NextLibAlwaysDeps(p) ==
    LET s == proc[p] IN
    /\ s.pc = "lib"
    /\ proc' = [proc EXCEPT ![p] =
           IF s.todo = <<>>
           THEN [s EXCEPT !.pc = "deps", !.depsTodo = s.locations]
           ELSE [s EXCEPT !.pc = "attempt", !.lib = Head(s.todo),
                          !.todo = Tail(s.todo),
                          !.used = UsedRequirements(s.mode, s.combined_reqs[Head(s.todo)]),
                          !.location = None, !.attempts = 0]]
    /\ UNCHANGED <<pkg, reqs, installedFile>>

\* the head of the for loop: used_requirements, location = None
NextLib(p) ==
    LET s == proc[p] IN
    /\ s.pc = "lib"
    /\ proc' = [proc EXCEPT ![p] =
           IF s.todo = <<>>
           THEN IF s.usingCache
                THEN [s EXCEPT !.pc = "finish"]
                ELSE [s EXCEPT !.pc = "deps", !.depsTodo = s.locations]
           ELSE [s EXCEPT !.pc = "attempt", !.lib = Head(s.todo),
                          !.todo = Tail(s.todo),
                          !.used = UsedRequirements(s.mode, s.combined_reqs[Head(s.todo)]),
                          !.location = None, !.attempts = 0]]
    /\ UNCHANGED <<pkg, reqs, installedFile>>

\* spec = ','.join(used_requirements); _install_package up to storage.cache
Attempt(p) ==
    LET s == proc[p]
        requirement == <<s.lib, s.used>>
    IN  /\ s.pc = "attempt"
        /\ proc' = [proc EXCEPT ![p] =
               IF requirement \in DOMAIN s.processed_reqs
               THEN [s EXCEPT !.pc = "after", !.spec = s.used, !.attempts = @ + 1,
                              !.location = s.processed_reqs[requirement]]
               ELSE [s EXCEPT !.pc = "c_ver", !.spec = s.used, !.attempts = @ + 1,
                              !.cname = s.lib, !.cspec = s.used, !.cver = None,
                              !.seen = {}, !.source = "",
                              !.invoked = Put(@, requirement, s.round),
                              !.again = @ \/ requirement \in DOMAIN s.invoked]]
        /\ UNCHANGED <<pkg, reqs, installedFile>>

\* locations[req] kept from the round that first resolved req
SetLocationOnce(locations, lib, location) ==
    IF \E i \in 1..Len(locations) : locations[i].lib = lib
    THEN locations
    ELSE Append(locations, [lib |-> lib, loc |-> location])

\* locations[req] = location
SetLocation(locations, lib, location) ==
    IF \E i \in 1..Len(locations) : locations[i].lib = lib
    THEN [i \in 1..Len(locations) |->
            IF locations[i].lib = lib THEN [lib |-> lib, loc |-> location]
            ELSE locations[i]]
    ELSE Append(locations, [lib |-> lib, loc |-> location])

\* the first library without a location ends the loop
AbortOnError(s) ==
    IF s.location # None
    THEN [s EXCEPT !.pc = "lib", !.locations = SetLocation(@, s.lib, s.location),
                   !.tried = @ \cup {s.lib}]
    ELSE [s EXCEPT !.pc = "finish", !.tried = @ \cup {s.lib}, !.failed = @ \cup {s.lib},
                   !.errors = Append(@, <<s.lib, s.spec>>)]

\* the end of the for body, a location taking back the library's errors
LibDoneClearing(s) ==
    IF s.location # None
    THEN [s EXCEPT !.pc = "lib", !.locations = SetLocation(@, s.lib, s.location),
                   !.tried = @ \cup {s.lib},
                   !.errors = SelectSeq(@, LAMBDA e : e[1] # s.lib)]
    ELSE [s EXCEPT !.pc = "lib", !.tried = @ \cup {s.lib}, !.failed = @ \cup {s.lib},
                   !.errors = IF InList(<<s.lib, s.spec>>, @) THEN @
                              ELSE Append(@, <<s.lib, s.spec>>)]

\* the end of the for body: locations or errors
LibDone(s) ==
    IF s.location # None
    THEN [s EXCEPT !.pc = "lib", !.locations = SetLocation(@, s.lib, s.location),
                   !.tried = @ \cup {s.lib}]
    ELSE [s EXCEPT !.pc = "lib", !.tried = @ \cup {s.lib}, !.failed = @ \cup {s.lib},
                   !.errors = IF InList(<<s.lib, s.spec>>, @) THEN @
                              ELSE Append(@, <<s.lib, s.spec>>)]

\* if location or strict: break; used_requirements.pop()
AfterAttempt(p) ==
    LET s == proc[p] IN
    /\ s.pc = "after"
    /\ proc' = [proc EXCEPT ![p] =
           IF s.location # None \/ s.mode = "strict"
           THEN LibDone(s)
           ELSE IF Pop(s.used) # <<>>
                THEN [s EXCEPT !.pc = "attempt", !.used = Pop(s.used)]
                ELSE LibDone([s EXCEPT !.used = Pop(s.used)])]
    /\ UNCHANGED <<pkg, reqs, installedFile>>

\* no manifest declares anything
NoDependencies(location, processed_files, d) == <<>>

\* _resolve_dependencies and _process_requirements_file for one location
resolve_dependencies(location, processed_files, d) ==
    IF ".dependencies" \in d.files /\ location \notin processed_files
    THEN Manifest(location[1], location[2])
    ELSE <<>>

\* the walk over locations started over when it is through
DepsAgain(p) ==
    LET s == proc[p] IN
    /\ s.pc = "deps"
    /\ proc' = [proc EXCEPT ![p] =
           IF s.depsTodo = <<>>
           THEN [s EXCEPT !.depsTodo = s.locations]
           ELSE [s EXCEPT !.depsTodo = Tail(@)]]
    /\ UNCHANGED <<pkg, reqs, installedFile>>

\* for lib, location in locations.items(): ...; if combined_reqs != current_reqs
Deps(p) ==
    LET s == proc[p] IN
    /\ s.pc = "deps"
    /\ proc' = [proc EXCEPT ![p] =
           IF s.depsTodo = <<>>
           THEN IF s.combined_reqs # s.current_reqs
                THEN [s EXCEPT !.pc = "round", !.current_reqs = s.combined_reqs]
                ELSE [s EXCEPT !.pc = "finish"]
           ELSE LET location == Head(s.depsTodo).loc
                    d        == Dir(pkg, location)
                    new_reqs == resolve_dependencies(location, s.processed_files, d)
                    isfile   == ".dependencies" \in d.files
                IN  [s EXCEPT !.depsTodo = Tail(@),
                              !.processed_files =
                                  IF isfile THEN @ \cup {location} ELSE @,
                              !.read = IF new_reqs # <<>> THEN @ \cup {location} ELSE @,
                              !.inserted = @ \o new_reqs,
                              !.combined_reqs = combine_requirements(new_reqs, @)]]
    /\ UNCHANGED <<pkg, reqs, installedFile>>

\* ------------------------------------------------ PackageStorage.cache
\* _install_package that keeps a location only when there is one
ReturnForgetFailure(s, location) ==
    [s EXCEPT !.pc = "after", !.location = location,
              !.processed_reqs = IF location # None
                                 THEN Put(@, <<s.lib, s.spec>>, location) ELSE @]

\* _install_package: processed_reqs[requirement] = location; return it
Return(s, location) ==
    [s EXCEPT !.pc = "after", !.location = location,
              !.processed_reqs = Put(@, <<s.lib, s.spec>>, location)]

File(name) == IF name \in DOMAIN installedFile THEN installedFile[name] ELSE NoFile

\* get_cache_version: the fast path, else on to the installed versions
CacheVersion(p) ==
    LET s == proc[p]
        version == quick_resolve_version(s.cspec)
    IN  /\ s.pc = "c_ver"
        /\ proc' = [proc EXCEPT ![p] =
               IF version # None
               THEN [s EXCEPT !.pc = "c_chk", !.cver = version, !.source = "quick"]
               ELSE [s EXCEPT !.pc = "gi_read"]]
        /\ UNCHANGED <<pkg, reqs, installedFile>>

\* _get_installed_versions: the .installed file, if younger than
\* CACHE_FILE_TIMEOUT_S and holding this python hash
InstalledRead(p) ==
    LET s == proc[p]
        f == File(Lower(s.cname))
    IN  /\ s.pc = "gi_read"
        /\ \E young \in BOOLEAN :
             proc' = [proc EXCEPT ![p] =
                 IF f.exists /\ young /\ f.vers # {}
                 THEN [s EXCEPT !.pc = "c_match", !.seen = f.vers]
                 ELSE [s EXCEPT !.pc = "gi_glob"]]
        /\ UNCHANGED <<pkg, reqs, installedFile>>

\* glob.glob(path_root / '*' / '*' / '.cached')
GlobCached(name) ==
    {k[2] : k \in {x \in DOMAIN pkg : x[1] = name /\ is_cached(pkg[x])}}

InstalledGlob(p) ==
    LET s == proc[p] IN
    /\ s.pc = "gi_glob"
    /\ proc' = [proc EXCEPT ![p] =
           [s EXCEPT !.pc = "gi_write", !.seen = GlobCached(Lower(s.cname))]]
    /\ UNCHANGED <<pkg, reqs, installedFile>>

\* json.dump(versions) to a temporary file; os.replace onto .installed
InstalledWrite(p) ==
    LET s == proc[p] IN
    /\ s.pc = "gi_write"
    /\ installedFile' = Put(installedFile, Lower(s.cname),
                            [exists |-> TRUE, vers |-> s.seen])
    /\ proc' = [proc EXCEPT ![p] = [s EXCEPT !.pc = "c_match"]]
    /\ UNCHANGED <<pkg, reqs>>

\* packages/<lib>/.available: exists (os.stat succeeds), parses (json.load
\* succeeds), listing (what json.load returns)
NoAvailable == [exists |-> FALSE, parses |-> FALSE, listing |-> {}]

\* the file read whatever its age
AvailableNeverStale(name, f, young, dir, up) ==
    IF f.exists /\ f.parses
    THEN [versions |-> f.listing, file |-> f, queried |-> FALSE]
    ELSE IF ~up
    THEN [versions |-> {}, file |-> f, queried |-> TRUE]
    ELSE [versions |-> Available(name),
          file |-> IF dir
                   THEN [exists |-> TRUE, parses |-> TRUE, listing |-> Available(name)]
                   ELSE f,
          queried |-> TRUE]

\* get_available_versions(name, path_root) with the .available file f of
\* path_root: young is st_mtime > time.time() - CACHE_FILE_TIMEOUT_S, dir is
\* whether path_root exists (the temporary file can be created), up is
\* whether an index answers pip index versions.  The result is the listing
\* returned, the file left behind, and whether pip was run.
get_available_versions(name, f, young, dir, up) ==
    IF f.exists /\ young /\ f.parses
    THEN [versions |-> f.listing, file |-> f, queried |-> FALSE]
    ELSE IF ~up
    THEN [versions |-> {}, file |-> f, queried |-> TRUE]
    ELSE [versions |-> Available(name),
          file |-> IF dir
                   THEN [exists |-> TRUE, parses |-> TRUE, listing |-> Available(name)]
                   ELSE f,
          queried |-> TRUE]

\* the listing of the index matched before the installed versions
MatchRemoteFirst(p) ==
    LET s == proc[p]
        local  == get_proper_version(s.cspec, s.seen)
        remote == get_proper_version(s.cspec,
                      get_available_versions(s.cname, NoAvailable, FALSE, FALSE, TRUE).versions)
    IN  /\ s.pc = "c_match"
        /\ proc' = [proc EXCEPT ![p] =
               IF remote # None
               THEN [s EXCEPT !.pc = "c_chk", !.cver = remote, !.source = "available"]
               ELSE IF local # None
               THEN [s EXCEPT !.pc = "c_chk", !.cver = local, !.source = "installed"]
               ELSE Return(s, None)]
        /\ UNCHANGED <<pkg, reqs, installedFile>>

\* get_cache_version: the installed versions, else the available ones.  The
\* index answers, and with the same listing throughout a resolution, so the
\* listing is the same whether it comes from .available or from the index:
\* the file is not kept in the resolver's state.
MatchVersion(p) ==
    LET s == proc[p]
        local  == get_proper_version(s.cspec, s.seen)
        remote == get_proper_version(s.cspec,
                      get_available_versions(s.cname, NoAvailable, FALSE, FALSE, TRUE).versions)
    IN  /\ s.pc = "c_match"
        /\ proc' = [proc EXCEPT ![p] =
               IF local # None
               THEN [s EXCEPT !.pc = "c_chk", !.cver = local, !.source = "installed"]
               ELSE IF remote # None
               THEN [s EXCEPT !.pc = "c_chk", !.cver = remote, !.source = "available"]
               ELSE Return(s, None)]
        /\ UNCHANGED <<pkg, reqs, installedFile>>

CacheLocation(s) == <<Lower(s.cname), s.cver>>

\* the test left out: every call goes on to exists() and the install
CacheCheckNever(p) ==
    LET s == proc[p] IN
    /\ s.pc = "c_chk"
    /\ proc' = [proc EXCEPT ![p] = [s EXCEPT !.pc = "c_exists"]]
    /\ UNCHANGED <<pkg, reqs, installedFile>>

\* if self.is_cached(cache_location): return cache_location
CacheCheck(p) ==
    LET s == proc[p] IN
    /\ s.pc = "c_chk"
    /\ proc' = [proc EXCEPT ![p] =
           IF is_cached(Dir(pkg, CacheLocation(s)))
           THEN Return(s, CacheLocation(s))
           ELSE [s EXCEPT !.pc = "c_exists"]]
    /\ UNCHANGED <<pkg, reqs, installedFile>>

\* the directory left where it is
SkipTree(s, d, ret) == [s EXCEPT !.pc = ret]

\* if cache_location.exists(): remove_tree(cache_location), up to the
\* listing of the directory by shutil.rmtree
OpenTree(s, d, ret) ==
    IF Exists(d)
    THEN [s EXCEPT !.pc = "rm_unlink", !.rmId = d.id, !.rmList = d.files, !.rmRet = ret]
    ELSE [s EXCEPT !.pc = ret]

CacheExists(p) ==
    LET s == proc[p] IN
    /\ s.pc = "c_exists"
    /\ proc' = [proc EXCEPT ![p] = OpenTree(s, Dir(pkg, CacheLocation(s)), "c_install")]
    /\ UNCHANGED <<pkg, reqs, installedFile>>

\* self._install(name, cache_version, temp_location): makedirs, pip install,
\* _write_dependencies, os.unlink of the .installed file
Install(p) ==
    LET s == proc[p]
        ok == FetcherHas(s.cname, s.cver)
    IN  /\ s.pc = "c_install"
        /\ proc' = [proc EXCEPT ![p] =
               [s EXCEPT !.pc = "c_publish", !.tempN = @ + 1, !.tempOk = ok,
                         !.tempDir = TRUE, !.fetches = @ + 1]]
        /\ installedFile' = IF ok THEN Put(installedFile, Lower(s.cname), NoFile)
                            ELSE installedFile
        /\ UNCHANGED <<pkg, reqs>>

\* os.rename(temp, cache_location): the destination is absent or empty
CanRename(d) == ~Exists(d) \/ d.files = {}

\* the temporary directory renamed whatever the Fetcher reported
PublishAlways(p) ==
    LET s == proc[p]
        k == CacheLocation(s)
        renamed == CanRename(Dir(pkg, k))
    IN  /\ s.pc = "c_publish"
        /\ pkg' = IF renamed
                  THEN Put(pkg, k, [id |-> <<p, s.tempN>>,
                                    files |-> PkgFiles(s.cname, s.cver), data |-> <<>>])
                  ELSE pkg
        /\ proc' = [proc EXCEPT ![p] =
               [s EXCEPT !.pc = "c_final", !.tempDir = IF renamed THEN FALSE ELSE @]]
        /\ UNCHANGED <<reqs, installedFile>>

\* Path.touch(temp / '.cached'); chmod; os.rename(temp_location, cache_location)
Publish(p) ==
    LET s == proc[p]
        k == CacheLocation(s)
        renamed == s.tempOk /\ CanRename(Dir(pkg, k))
    IN  /\ s.pc = "c_publish"
        /\ pkg' = IF renamed
                  THEN Put(pkg, k, [id |-> <<p, s.tempN>>,
                                    files |-> PkgFiles(s.cname, s.cver), data |-> <<>>])
                  ELSE pkg
        /\ proc' = [proc EXCEPT ![p] =
               [s EXCEPT !.pc = "c_final", !.tempDir = IF renamed THEN FALSE ELSE @]]
        /\ UNCHANGED <<reqs, installedFile>>

\* remove_tree(temp_location) if it is left; the final is_cached test
CacheFinal(p) ==
    LET s == proc[p] IN
    /\ s.pc = "c_final"
    /\ proc' = [proc EXCEPT ![p] =
           IF is_cached(Dir(pkg, CacheLocation(s)))
           THEN Return([s EXCEPT !.tempOk = FALSE, !.tempDir = FALSE], CacheLocation(s))
           ELSE Return([s EXCEPT !.tempOk = FALSE, !.tempDir = FALSE], None)]
    /\ UNCHANGED <<pkg, reqs, installedFile>>

\* -------------------------------------------------------------- remove_tree
\* shutil.rmtree unlinks the listed entries through the directory it opened,
\* then removes the directory by its path; the first error ends it
RmTarget(s) ==
    IF s.rmRet = "c_install" THEN CacheLocation(s)
    ELSE RequirementsHash(s.input, s.mode)

RmDir(s) == IF s.rmRet = "c_install" THEN Dir(pkg, RmTarget(s)) ELSE Dir(reqs, RmTarget(s))

RmStore(s, d) ==
    IF s.rmRet = "c_install"
    THEN pkg' = Put(pkg, RmTarget(s), d) /\ UNCHANGED reqs
    ELSE reqs' = Put(reqs, RmTarget(s), d) /\ UNCHANGED pkg

RmUnlink(p) ==
    LET s == proc[p]
        d == RmDir(s)
    IN  /\ s.pc = "rm_unlink"
        /\ IF s.rmList = {}
           THEN /\ proc' = [proc EXCEPT ![p] = [s EXCEPT !.pc = "rm_rmdir"]]
                /\ UNCHANGED <<pkg, reqs>>
           ELSE \E e \in s.rmList :
                  IF d.id = s.rmId /\ e \in d.files
                  THEN /\ RmStore(s, [d EXCEPT !.files = @ \ {e}])
                       /\ proc' = [proc EXCEPT ![p] = [s EXCEPT !.rmList = @ \ {e}]]
                  ELSE /\ proc' = [proc EXCEPT ![p] =
                              [s EXCEPT !.pc = s.rmRet, !.rmList = {}, !.rmId = <<>>]]
                       /\ UNCHANGED <<pkg, reqs>>
        /\ UNCHANGED installedFile

RmRmdir(p) ==
    LET s == proc[p]
        d == RmDir(s)
    IN  /\ s.pc = "rm_rmdir"
        /\ IF Exists(d) /\ d.files = {}
           THEN RmStore(s, Absent)
           ELSE UNCHANGED <<pkg, reqs>>
        /\ proc' = [proc EXCEPT ![p] = [s EXCEPT !.pc = s.rmRet, !.rmId = <<>>]]
        /\ UNCHANGED installedFile

\* -------------------------------------------- _post_process_requirements
\* dict_reqs[req['lib'].lower()] = req: the last requirement of that name
Index(list, name) ==
    CHOOSE i \in 1..Len(list) :
        /\ Lower(list[i].lib) = name
        /\ \A j \in (i + 1)..Len(list) : Lower(list[j].lib) # name

HasLib(list, name) == \E i \in 1..Len(list) : Lower(list[i].lib) = name

RuleFires(list, library_name) ==
    LET mod == library_modifications[library_name] IN
    /\ HasLib(list, mod.comparison.name)
    /\ compare_versions(list[Index(list, library_name)].version, mod.op, mod.version)
    /\ compare_versions(list[Index(list, mod.comparison.name)].version,
                        mod.comparison.op, mod.comparison.version)

ApplyRule(list, library_name) ==
    LET mod == library_modifications[library_name]
        j   == Index(list, mod.comparison.name)
    IN  IF RuleFires(list, library_name)
        THEN [list EXCEPT ![j] = [lib |-> list[j].lib,
                                  spec |-> Tok("==", mod.comparison.new_version),
                                  version |-> mod.comparison.new_version]]
        ELSE list

RECURSIVE ApplyRules(_, _)
ApplyRules(list, names) ==
    IF names = {} THEN list
    ELSE LET n == CHOOSE x \in names : TRUE IN
         ApplyRules(ApplyRule(list, n), names \ {n})

RuleNames(list) == {n \in DOMAIN library_modifications : HasLib(list, n)}

post_process_requirements(requirements) == ApplyRules(requirements, RuleNames(requirements))

\* ---------------------------------------------------------- _get_module_names
\* version = basename(dirname(location)); {'lib', 'spec': '==' + version, 'version'}
ResolvedDependencies(locations) ==
    [i \in 1..Len(locations) |->
        [lib |-> locations[i].lib, spec |-> Tok("==", locations[i].loc[2]),
         version |-> locations[i].loc[2]]]

RECURSIVE SetMetadata(_, _)
SetMetadata(meta, locations) ==
    IF locations = <<>> THEN meta
    ELSE SetMetadata(Put(meta, Head(locations).lib,
                         [version |-> Head(locations).loc[2], path |-> Head(locations).loc]),
                     Tail(locations))

\* _install_requirements that goes on to _get_module_names with errors recorded
FinishDespiteErrors(p) ==
    LET s == proc[p]
        resolved_dependencies == ResolvedDependencies(s.locations)
        processed == post_process_requirements(resolved_dependencies)
        t == [s EXCEPT !.lib_metadata = SetMetadata(@, s.locations)]
    IN  /\ s.pc = "finish"
        /\ proc' = [proc EXCEPT ![p] =
               IF s.usingCache
               THEN [t EXCEPT !.pc = "done", !.resolved = resolved_dependencies]
               ELSE [t EXCEPT !.pc = "q_chk", !.resolved = processed,
                              !.refresh = (processed # resolved_dependencies),
                              !.fired = @ \/ (processed # resolved_dependencies)]]
        /\ UNCHANGED <<pkg, reqs, installedFile>>

\* if errors: sys.exit(1); else _get_module_names up to cache_requirements
Finish(p) ==
    LET s == proc[p]
        resolved_dependencies == ResolvedDependencies(s.locations)
        processed == post_process_requirements(resolved_dependencies)
        t == [s EXCEPT !.lib_metadata = SetMetadata(@, s.locations)]
    IN  /\ s.pc = "finish"
        /\ proc' = [proc EXCEPT ![p] =
               IF s.errors # <<>> THEN [s EXCEPT !.pc = "exit"]
               ELSE IF s.usingCache
               THEN [t EXCEPT !.pc = "done", !.resolved = resolved_dependencies]
               ELSE [t EXCEPT !.pc = "q_chk", !.resolved = processed,
                              !.refresh = (processed # resolved_dependencies),
                              !.fired = @ \/ (processed # resolved_dependencies)]]
        /\ UNCHANGED <<pkg, reqs, installedFile>>

\* ------------------------------------------------------- cache_requirements
ReqLocation(s) == RequirementsHash(s.input, s.mode)

\* if refresh: return self._load_requirements()
AfterCacheRequirements(s) ==
    IF s.refresh THEN [s EXCEPT !.pc = "load"] ELSE [s EXCEPT !.pc = "done"]

ReqCheck(p) ==
    LET s == proc[p] IN
    /\ s.pc = "q_chk"
    /\ proc' = [proc EXCEPT ![p] =
           IF is_cached(Dir(reqs, ReqLocation(s)))
           THEN AfterCacheRequirements(s)
           ELSE [s EXCEPT !.pc = "q_exists"]]
    /\ UNCHANGED <<pkg, reqs, installedFile>>

ReqExists(p) ==
    LET s == proc[p] IN
    /\ s.pc = "q_exists"
    /\ proc' = [proc EXCEPT ![p] = OpenTree(s, Dir(reqs, ReqLocation(s)), "q_publish")]
    /\ UNCHANGED <<pkg, reqs, installedFile>>

\* makedirs(temp); json.dump(dependencies); touch .cached; os.rename
ReqPublish(p) ==
    LET s == proc[p]
        k == ReqLocation(s)
    IN  /\ s.pc = "q_publish"
        /\ reqs' = IF CanRename(Dir(reqs, k))
                   THEN Put(reqs, k, [id |-> <<p, s.tempN + 1>>, files |-> ReqFiles,
                                      data |-> s.resolved])
                   ELSE reqs
        /\ proc' = [proc EXCEPT ![p] = [s EXCEPT !.pc = "q_final", !.tempN = @ + 1]]
        /\ UNCHANGED <<pkg, installedFile>>

ReqFinal(p) ==
    LET s == proc[p] IN
    /\ s.pc = "q_final"
    /\ proc' = [proc EXCEPT ![p] = AfterCacheRequirements(s)]
    /\ UNCHANGED <<pkg, reqs, installedFile>>

\* ------------------------------------------------------------ a further run
\* the program is started once more, with the requirements and mode of its
\* next run (the same ones unless the initial state says otherwise), at a
\* time when no other resolution is under way: a new DepyInjectorFinder,
\* whose __init__ calls _load_requirements
Rerun(p) ==
    LET s == proc[p] IN
    /\ s.pc = "done"
    /\ s.run = 1
    /\ \A q \in Procs \ {p} : proc[q].pc \in {"off", "done", "exit"}
    /\ proc' = [proc EXCEPT ![p] =
           [Fresh(s.nextMode, NotRead, s.nextInput, "load")
               EXCEPT !.run = s.run + 1, !.prev = s.resolved, !.tempN = s.tempN,
                      !.prevInput = s.input, !.prevMode = s.mode]]
    /\ UNCHANGED <<pkg, reqs, installedFile>>

\* ------------------------------------------------------------ specification
Step(p) ==
    \/ Rerun(p)
    \/ Load(p) \/ ReadResolved(p) \/ Round(p) \/ NextLib(p) \/ Attempt(p)
    \/ AfterAttempt(p) \/ Deps(p) \/ Finish(p)
    \/ CacheVersion(p) \/ InstalledRead(p) \/ InstalledGlob(p) \/ InstalledWrite(p)
    \/ MatchVersion(p) \/ CacheCheck(p) \/ CacheExists(p) \/ Install(p)
    \/ Publish(p) \/ CacheFinal(p) \/ RmUnlink(p) \/ RmRmdir(p)
    \/ ReqCheck(p) \/ ReqExists(p) \/ ReqPublish(p) \/ ReqFinal(p)

Next == \E p \in Procs : Step(p)

Off == Fresh("strict", NotRead, <<>>, "off")

\* what the packages root may hold before a resolution starts
\* (nothing; or a 1.0 and b 2.9 published and a 1.2.5 left without its sentinel)
InitialPkgs ==
    { <<>>,
      Put(Put(Put(<<>>, <<"a", <<1, 0>>>>, Published("a", <<1, 0>>)),
              <<"b", <<2, 9>>>>, Published("b", <<2, 9>>)),
          <<"a", <<1, 2, 5>>>>, [id |-> <<"init", 0>>, files |-> {"files"}, data |-> <<>>]) }

\* one process resolving any requirement list in any mode
Init ==
    /\ pkg \in InitialPkgs
    /\ reqs = <<>>
    /\ installedFile = <<>>
    /\ \E mode \in Modes, input \in ReqLists :
         proc = [p \in Procs |-> IF p = "p1" THEN Fresh(mode, NotRead, input, "load") ELSE Off]

Spec == Init /\ [][Next]_vars

\* two processes resolving the same requirement list, never resolved before,
\* of which only b 2.9 is in the package cache
ConcInputs == { <<Req("a", "==", <<1, 0>>)>> }

InitConc ==
    /\ pkg = Put(<<>>, <<"b", <<2, 9>>>>, Published("b", <<2, 9>>))
    /\ reqs = <<>>
    /\ installedFile = <<>>
    /\ \E input \in ConcInputs :
         proc = [p \in Procs |-> Fresh("strict", NotRead, input, "load")]

SpecConc == InitConc /\ [][Next]_vars

\* ==================================================================== claims
Range(f) == {f[i] : i \in DOMAIN f}

Running(p) == proc[p].pc \notin {"off", "done", "exit"}

\* the {library: version} mapping a finished resolution returns
ResultMap(p) == {<<r.lib, r.version>> : r \in Range(proc[p].resolved)}

CompleteEntry(k) == is_cached(pkg[k]) /\ pkg[k].files = PkgFiles(k[1], k[2])

CompleteResolution(k) == is_cached(reqs[k]) /\ reqs[k].files = ReqFiles

\* C1: a published Cache Entry (directory with its .cached sentinel) is never
\* deleted or modified by any step of any process: it is the same directory
\* with the same content in the next state.
C1_PublishedEntryImmutable ==
    [][\A k \in DOMAIN pkg :
          is_cached(pkg[k]) => (k \in DOMAIN pkg' /\ pkg'[k] = pkg[k])]_vars

\* C2: two concurrent resolutions of the same never-before-seen requirement
\* set both end successfully (none exits with errors), return the same
\* {library: version} mapping, and leave every entry they touched published.
C2_ConcurrentResolutionsAgree ==
    /\ \A p \in Procs : proc[p].pc # "exit"
    /\ (\A p \in Procs : proc[p].pc = "done") =>
          /\ \A p, q \in Procs : ResultMap(p) = ResultMap(q)
          /\ \A k \in DOMAIN pkg : Exists(pkg[k]) => CompleteEntry(k)
          /\ \A k \in DOMAIN reqs : Exists(reqs[k]) => CompleteResolution(k)

\* C3: whenever the .cached sentinel is visible at a canonical cache location
\* (a package entry or a resolution entry), the full content of the entry is
\* visible there too: no reader sees a partially populated directory.
C3_SentinelImpliesComplete ==
    /\ \A k \in DOMAIN pkg : is_cached(pkg[k]) => pkg[k].files = PkgFiles(k[1], k[2])
    /\ \A k \in DOMAIN reqs : is_cached(reqs[k]) => reqs[k].files = ReqFiles

\* every constraint of the list holds of the version
SatisfiesAll(list, v) ==
    \A i \in 1..Len(list) : ReqMatches(parse_requirement_spec(list[i]), v)

\* the versions of a library that are materialized locally or listed remotely
Known(name) == Available(name) \cup GlobCached(Lower(name))

Relaxing(s) == s.mode \in {"newest", "legacy"}

\* the process is inside the relaxation loop of library s.lib
InAttempt(s) ==
    \/ s.pc \in {"attempt", "after", "c_ver", "gi_read", "gi_glob", "gi_write",
                 "c_match", "c_chk", "c_exists", "c_install", "c_publish", "c_final"}
    \/ s.pc \in {"rm_unlink", "rm_rmdir"} /\ s.rmRet = "c_install"

C5_HighestOfAllKnown ==
    \A p \in Procs :
        LET s == proc[p] IN
        s.pc = "c_chk" =>
            IsHighest(s.cver, {v \in Known(s.cname) : SatisfiesAll(s.cspec, v)})

\* C5 (amended): a selected version is the highest satisfying version of the
\* first source that has one: the version named by a single == constraint;
\* else the highest satisfying version among those _get_installed_versions
\* returned; else, when none of those satisfies, the highest satisfying
\* version of the remote listing.
C5_HighestWithinSource ==
    \A p \in Procs :
        LET s == proc[p]
            local  == {v \in s.seen : SatisfiesAll(s.cspec, v)}
            remote == {v \in Available(s.cname) : SatisfiesAll(s.cspec, v)}
        IN  s.pc = "c_chk" =>
            /\ s.source \in {"quick", "installed", "available"}
            /\ s.source = "quick" =>
                  /\ Len(s.cspec) = 1
                  /\ s.cspec[1].op = "=="
                  /\ s.cver = s.cspec[1].ver
            /\ s.source = "installed" => IsHighest(s.cver, local)
            /\ s.source = "available" => local = {} /\ IsHighest(s.cver, remote)

\* a locally materialized version is selected although the index lists a
\* higher one that satisfies the same constraints
C5_Witness ==
    \E p \in Procs :
        LET s == proc[p] IN
        /\ s.pc = "c_chk" /\ s.source = "installed"
        /\ \E v \in Available(s.cname) :
              SatisfiesAll(s.cspec, v) /\ VersionCmp(v, s.cver) > 0

\* C6: under newest and legacy mode the relaxation loop of a library with N
\* constraints makes at most N attempts, that is at most N-1 removals
\* followed by a retry, and stops when a version is found or after the
\* attempt with a single constraint.
C6_RelaxationBounded ==
    \A p \in Procs :
        LET s == proc[p]
            N == Len(s.combined_reqs[s.lib])
        IN  (Relaxing(s) /\ s.lib # "") =>
            /\ s.attempts - 1 <= N - 1
            /\ ~InAttempt(s) => (s.location # None \/ Len(s.spec) = 1)

C6_Witness ==
    \E p \in Procs :
        LET s == proc[p] IN
        /\ Relaxing(s) /\ s.pc = "lib" /\ s.lib # ""
        /\ Len(s.combined_reqs[s.lib]) >= 2
        /\ s.attempts = Len(s.combined_reqs[s.lib])
        /\ s.location = None

\* C7: under newest and legacy mode the version of a successful attempt
\* satisfies every constraint still in the list at that attempt.
C7_SurvivorsSatisfied ==
    \A p \in Procs :
        LET s == proc[p] IN
        (Relaxing(s) /\ s.pc = "after" /\ s.location # None) =>
            SatisfiesAll(s.used, s.location[2])

C7_Witness ==
    \E p \in Procs :
        LET s == proc[p] IN
        /\ Relaxing(s) /\ s.pc = "after" /\ s.location # None
        /\ s.attempts >= 2 /\ Len(s.used) >= 2

IsAny(spec) == parse_requirement_spec(spec).op = "any"

RECURSIVE FirstInserted(_, _)
FirstInserted(log, lib) ==
    IF log = <<>> THEN <<>>
    ELSE LET front == FirstInserted(SubSeq(log, 1, Len(log) - 1), lib)
             last  == log[Len(log)]
         IN  IF last.lib = lib /\ ~InList(last.spec, front)
             THEN Append(front, last.spec) ELSE front

\* C9: in legacy mode the constraints are tried in the order they were first
\* inserted, and the k-th attempt is made with that order less its k-1 most
\* recently inserted constraints: the surviving list is a prefix of it.
C9_LegacyInsertionOrderPrefix ==
    \A p \in Procs :
        LET s == proc[p]
            order == FirstInserted(s.inserted, s.lib)
        IN  (s.mode = "legacy" /\ s.pc = "after") =>
            /\ s.attempts \in 1..Len(order)
            /\ s.used = SubSeq(order, 1, Len(order) - (s.attempts - 1))

\* a relaxed attempt in legacy mode whose insertion order is not sorted
C9_Witness ==
    \E p \in Procs :
        LET s == proc[p] IN
        /\ s.mode = "legacy" /\ s.pc = "after" /\ s.attempts >= 2
        /\ s.combined_reqs[s.lib] # SortedNewest(s.combined_reqs[s.lib])

\* C10: after an override rule fired, the resolution that follows runs the
\* transitive fixpoint on the original requirements plus the forced version
\* of B: it is not restored from the Resolution Cache, its requirements are
\* the original ones followed by B == new_version, and it reads the manifest
\* of B at the forced version.
C10_OverrideRerunsFullResolution ==
    \A p \in Procs :
        LET s == proc[p] IN
        (s.fired /\ s.pc = "done") =>
            \A n \in DOMAIN library_modifications :
                LET c == library_modifications[n].comparison IN
                /\ ~s.usingCache
                /\ s.requirements = s.input \o <<Req(c.name, "==", c.new_version)>>
                /\ <<Lower(c.name), c.new_version>> \in s.read

\* the requirement set of the override example: A==1.2.5 and B==2.9
OverrideExample(s) ==
    Range(s.input) = {Req("a", "==", <<1, 2, 5>>), Req("b", "==", <<2, 9>>)}

\* C11: with the rule 'if A ~=1.2 and B <3.0 then force B to 3.0', a first
\* resolution of A==1.2.5 and B==2.9 makes exactly one re-resolution pass
\* after the rule fired (two passes in all, never a third) and ends with B at
\* 3.0 in the final result.
C11_OverrideForcesOnce ==
    \A p \in Procs :
        LET s == proc[p] IN
        (OverrideExample(s) /\ s.run = 1) =>
            /\ s.pass <= 2
            /\ s.pc = "done" =>
                  /\ s.pass = 2
                  /\ "b" \in DOMAIN s.lib_metadata
                  /\ s.lib_metadata["b"].version = <<3, 0>>
                  /\ \E i \in 1..Len(s.resolved) :
                        s.resolved[i].lib = "b" /\ s.resolved[i].version = <<3, 0>>

\* the {library: version} mapping the previous run of the process returned
PrevMap(p) == {<<r.lib, r.version>> : r \in Range(proc[p].prev)}

\* lib_metadata as a {library: version} mapping
MetadataMap(p) ==
    {<<k, proc[p].lib_metadata[k].version>> : k \in DOMAIN proc[p].lib_metadata}

C13_PublishedEntryReturnedWithoutFetch ==
    [][\A p \in Procs :
          LET s == proc[p]
              t == proc'[p]
          IN  /\ (s.pc = "c_chk" /\ is_cached(Dir(pkg, CacheLocation(s))) /\ t # s) =>
                    /\ t.pc = "after"
                    /\ t.location = CacheLocation(s)
                    /\ t.fetches = s.fetches
                    /\ pkg' = pkg
              /\ (t.pc = "c_install" /\ t # s) =>
                    ~is_cached(Dir(pkg', CacheLocation(t)))]_vars

\* cache() has returned an entry that was published before the run started,
\* and the run has fetched nothing
C13_Witness ==
    \E p \in Procs :
        LET s == proc[p] IN
        /\ s.pc = "after" /\ s.round = 1 /\ s.cname = s.lib /\ s.fetches = 0
        /\ s.location # None
        /\ Dir(pkg, s.location).id = <<"init", 0>>
        /\ is_cached(Dir(pkg, s.location))

\* the libraries that have a location
Resolved(s) == {s.locations[i].lib : i \in 1..Len(s.locations)}

\* C14: a first resolution of {A==1.0}, where A 1.0's manifest declares
\* B>=2.0 and no other manifest read declares anything, leaves the fixpoint
\* loop after exactly two rounds, without errors and with A and B resolved.
C14_TwoRoundsForAThenB ==
    \A p \in Procs :
        LET s == proc[p] IN
        (/\ s.input = <<Req("a", "==", <<1, 0>>)>>
         /\ s.pc = "finish" /\ ~s.usingCache
         /\ s.read \subseteq {<<"a", <<1, 0>>>>}) =>
            /\ s.round = 2
            /\ s.errors = <<>>
            /\ Resolved(s) = {"a", "b"}
            /\ s.read = {<<"a", <<1, 0>>>>}

\* the loop has ended for {A==1.0} with B at a version without requirements
C14_Witness ==
    \E p \in Procs :
        LET s == proc[p] IN
        /\ s.input = <<Req("a", "==", <<1, 0>>)>>
        /\ s.pc = "finish" /\ ~s.usingCache /\ s.round = 2
        /\ \E i \in 1..Len(s.locations) :
              /\ s.locations[i].lib = "b"
              /\ Manifest("b", s.locations[i].loc[2]) = <<>>

\* ------------------------------------------------- specification (liveness)
\* longest requirement list of the runs checked for termination
MaxLiveReqs == 2

\* the requirement lines of those runs: the ones that start the chains of
\* manifests (a 1.0, b 3.0), a failing one and the ones of the override rule
LiveReqs ==
    { Req("a", "==", <<1, 0>>), Req("a", "==", <<9, 9>>), Req("a", "==", <<1, 2, 5>>),
      Req("b", "==", <<2, 9>>), Req("b", "any", None) }

LiveLists ==
    {l \in UNION {[1..n -> LiveReqs] : n \in 1..MaxLiveReqs} :
        \A i, j \in 1..Len(l) : i # j => l[i] # l[j]}

\* what the requirements root may hold for a requirement list before its
\* resolution starts: nothing, or a directory left without its sentinel
InitialReqs(input, mode) ==
    { <<>>,
      Put(<<>>, RequirementsHash(input, mode),
          [id |-> <<"init", 0>>, files |-> {"resolution"}, data |-> <<>>]) }

InitLive ==
    /\ pkg \in InitialPkgs
    /\ installedFile = <<>>
    /\ \E mode \in Modes, input \in LiveLists :
         /\ reqs \in InitialReqs(input, mode)
         /\ proc = [p \in Procs |->
                      IF p = "p1" THEN Fresh(mode, NotRead, input, "load") ELSE Off]

\* a process that can take a step eventually takes one
SpecLive == InitLive /\ [][Next]_vars /\ \A p \in Procs : WF_vars(Step(p))

\* C15: the fixpoint loop of _install_requirements terminates: every entry
\* into a round is followed by the end of the loop, and the loop is left
\* only when the Combined Requirement Set merged in the last round equals
\* the set that round used.
C15_FixpointTerminates ==
    /\ \A p \in Procs : (proc[p].pc = "round") ~> (proc[p].pc = "finish")
    /\ [](\A p \in Procs :
             (proc[p].pc = "finish" /\ ~proc[p].usingCache) =>
                 proc[p].combined_reqs = proc[p].current_reqs)

\* the loop has ended after more than two rounds
C15_Witness ==
    \E p \in Procs :
        /\ proc[p].pc = "finish" /\ ~proc[p].usingCache /\ proc[p].round >= 3

IsPrefix(a, b) == Len(a) <= Len(b) /\ SubSeq(b, 1, Len(a)) = a

\* C16: within one resolution (from the start of the loop of
\* _install_requirements to its end) no step removes a library from the
\* Combined Requirement Set or changes the constraints a library already has:
\* each library's list stays a prefix of its later list.
C16_CombinedOnlyGrows ==
    [][\A p \in Procs :
          LET s == proc[p]
              t == proc'[p]
          IN  s.pc \notin {"off", "load", "ir_read", "done", "exit"} =>
                \A k \in DOMAIN s.combined_reqs :
                    /\ k \in DOMAIN t.combined_reqs
                    /\ IsPrefix(s.combined_reqs[k], t.combined_reqs[k])]_vars

\* the loop has ended with b at a version other than 3.0, after b 3.0 was
\* selected and its manifest brought in c, which is still in the set
C16_Witness ==
    \E p \in Procs :
        LET s == proc[p] IN
        /\ s.pc = "finish" /\ ~s.usingCache
        /\ <<"b", <<3, 0>>>> \in s.read
        /\ "c" \in DOMAIN s.combined_reqs
        /\ \E i \in 1..Len(s.locations) :
              s.locations[i].lib = "b" /\ s.locations[i].loc[2] # <<3, 0>>

\* C17: in a round where a library failed to resolve, or of a resolution
\* restored from the Resolution Cache, the steps that follow the for loop
\* read no dependency manifest and do not extend the Combined Requirement
\* Set.
C17_NoManifestReadAfterFailure ==
    [][\A p \in Procs :
          LET s == proc[p]
              t == proc'[p]
          IN  (s.pc = "deps" /\ (s.failed # {} \/ s.usingCache)) =>
                /\ t.read = s.read
                /\ t.processed_files = s.processed_files
                /\ t.combined_reqs = s.combined_reqs]_vars

\* the libraries named by the recorded errors
ErrorLibs(s) == {s.errors[i][1] : i \in 1..Len(s.errors)}

\* C18: a library that cannot be resolved does not stop the round.  When the
\* for loop of a round is through, and when the loop of the resolution ends,
\* every library of the Combined Requirement Set has been attempted in the
\* round just run, each one either has a location or has failed with an
\* error recorded (in the first round: exactly one error per failing
\* library); and a resolution with any error recorded ends in exit without
\* returning a mapping, while one that goes on to return has none.
C18_AllErrorsCollectedThenFatal ==
    \A p \in Procs :
        LET s == proc[p] IN
        /\ ((s.pc = "lib" /\ s.todo = <<>>) \/ s.pc \in {"finish", "exit"}) =>
              /\ s.tried = DOMAIN s.combined_reqs
              /\ s.failed \subseteq ErrorLibs(s)
              /\ (s.tried \ s.failed) \subseteq Resolved(s)
              /\ s.round = 1 => Len(s.errors) = Cardinality(s.failed)
        /\ s.pc = "exit" =>
              /\ s.errors # <<>>
              /\ s.resolved = <<>>
              /\ s.lib_metadata = <<>>
        /\ s.pc \in {"q_chk", "q_exists", "q_publish", "q_final", "done"} =>
              s.errors = <<>>

\* a resolution has ended in exit after a failing library was followed, in
\* the same round, by a library that resolved
C18_Witness ==
    \E p \in Procs :
        LET s == proc[p] IN
        /\ s.pc = "exit" /\ s.round = 1
        /\ "a" \in s.failed /\ "b" \in Resolved(s) /\ "b" \in s.tried

\* C19: a canonical directory without its .cached sentinel is treated as
\* absent.  Only a directory without the sentinel is ever removed; the
\* Fetcher, and the writing of a resolution, start with the canonical path
\* gone; and after a successful fetch, or after the resolution is written,
\* the canonical path holds the complete entry of the temporary directory
\* just built, with its sentinel.
C19_CorruptEntryRebuilt ==
    \A p \in Procs :
        LET s == proc[p]
            e == Dir(pkg, CacheLocation(s))
            q == Dir(reqs, ReqLocation(s))
        IN  /\ s.pc \in {"rm_unlink", "rm_rmdir"} => ~is_cached(RmDir(s))
            /\ s.pc = "c_install" => ~Exists(e)
            /\ (s.pc = "c_final" /\ s.tempOk) =>
                  /\ is_cached(e)
                  /\ e.id = <<p, s.tempN>>
                  /\ e.files = PkgFiles(s.cname, s.cver)
            /\ s.pc = "q_publish" => ~Exists(q)
            /\ s.pc = "q_final" =>
                  /\ is_cached(q)
                  /\ q.id = <<p, s.tempN>>
                  /\ q.files = ReqFiles
                  /\ q.data = s.resolved

\* a package entry found without its sentinel has been removed, fetched
\* again and republished
C19_Witness ==
    \E p \in Procs :
        LET s == proc[p]
            e == Dir(pkg, CacheLocation(s))
        IN  /\ s.pc = "c_final" /\ s.tempOk /\ s.rmRet = "c_install"
            /\ CacheLocation(s) = <<"a", <<1, 2, 5>>>>
            /\ is_cached(e) /\ e.id = <<p, s.tempN>>

\* C20: when the Fetcher reports failure, cache() publishes nothing at the
\* canonical location, removes its temporary directory and returns None to
\* the resolution loop; the loop then records at most one error for the
\* library and goes on to the next attempt or the next library, never
\* straight to its end.
C20_FetchFailureIsOneError ==
    [][\A p \in Procs :
         LET s == proc[p]
             t == proc'[p]
         IN  /\ (s.pc = "c_publish" /\ ~s.tempOk /\ t # s) => pkg' = pkg
             /\ (s.pc = "c_final" /\ ~s.tempOk /\ t # s) =>
                   /\ pkg' = pkg
                   /\ ~Exists(Dir(pkg', CacheLocation(s)))
                   /\ ~t.tempDir
                   /\ t.pc = "after"
                   /\ t.location = None
             /\ (s.pc = "after" /\ s.location = None /\ t # s) =>
                   /\ t.pc \in {"attempt", "lib"}
                   /\ t.locations = s.locations
                   /\ t.pc = "lib" =>
                         /\ s.lib \in t.failed
                         /\ InList(<<s.lib, s.spec>>, t.errors)
                         /\ Len(t.errors) <= Len(s.errors) + 1
                   /\ t.pc = "attempt" => t.errors = s.errors]_vars

\* after a library's fetch failed, another library has been fetched
C20_Witness ==
    \E p \in Procs :
        LET s == proc[p]
        IN  /\ s.failed # {} /\ s.lib \notin s.failed
            /\ s.errors # <<>>
            /\ s.pc = "c_final" /\ s.tempOk

\* ============================================== the functions on their own
\* longest release, and largest release component, of the versions compared
MaxVerLen == 4

MaxComp == 1

SeqsUpTo(S, n) == UNION {[1..k -> S] : k \in 1..n}

\* Version objects
PureVersions == SeqsUpTo(0..MaxComp, MaxVerLen)

\* the version part of a constraint token: components or '*', or nothing
PureTokenVersions == SeqsUpTo({Star} \cup (0..MaxComp), MaxVerLen - 1) \cup {None}

\* "" stands for a token the regular expression does not match
PureOps == KnownOps \cup {"any", ""}

\* what packages/<lib>/.available may be: missing, unreadable, or a listing
PureFiles ==
    {NoAvailable, [exists |-> TRUE, parses |-> FALSE, listing |-> {}]}
    \cup {[exists |-> TRUE, parses |-> TRUE, listing |-> l] :
             l \in {{}, {<<1, 0>>}, {<<1, 0>>, <<2, 0>>}}}

NoCall == [fn |-> "", pc |-> "ret"]

\* one call of one function, on any arguments
InitPure ==
    /\ pkg = <<>>
    /\ reqs = <<>>
    /\ installedFile = <<>>
    /\ \/ \E v1, v2 \in PureVersions, op \in {"==", "~=", ">="} :
            proc = [p \in Procs |->
                      IF p = "p1"
                      THEN [fn |-> "compare_versions", pc |-> "call",
                            version1 |-> v1, operation |-> op, version2 |-> v2]
                      ELSE NoCall]
       \/ \E op \in PureOps, ver \in PureTokenVersions :
            proc = [p \in Procs |->
                      IF p = "p1"
                      THEN [fn |-> "parse_requirement_spec", pc |-> "call",
                            version |-> Tok(op, ver)]
                      ELSE NoCall]
       \/ \E f \in PureFiles, young, dir, up \in BOOLEAN, name \in {"a", "b"} :
            proc = [p \in Procs |->
                      IF p = "p1"
                      THEN [fn |-> "get_available_versions", pc |-> "call",
                            name |-> name, f |-> f, young |-> young, dir |-> dir,
                            up |-> up]
                      ELSE NoCall]

CallCompare(p) ==
    LET s == proc[p] IN
    /\ s.pc = "call" /\ s.fn = "compare_versions"
    /\ proc' = [proc EXCEPT ![p] =
           [fn |-> s.fn, pc |-> "ret", version1 |-> s.version1,
            operation |-> s.operation, version2 |-> s.version2,
            match |-> compare_versions(s.version1, s.operation, s.version2)]]
    /\ UNCHANGED <<pkg, reqs, installedFile>>

CallParse(p) ==
    LET s == proc[p] IN
    /\ s.pc = "call" /\ s.fn = "parse_requirement_spec"
    /\ proc' = [proc EXCEPT ![p] =
           [fn |-> s.fn, pc |-> "ret", version |-> s.version,
            parsed |-> parse_requirement_spec(s.version)]]
    /\ UNCHANGED <<pkg, reqs, installedFile>>

CallAvailable(p) ==
    LET s == proc[p] IN
    /\ s.pc = "call" /\ s.fn = "get_available_versions"
    /\ proc' = [proc EXCEPT ![p] =
           [fn |-> s.fn, pc |-> "ret", name |-> s.name, f |-> s.f, young |-> s.young,
            dir |-> s.dir, up |-> s.up,
            result |-> get_available_versions(s.name, s.f, s.young, s.dir, s.up)]]
    /\ UNCHANGED <<pkg, reqs, installedFile>>

NextPure == \E p \in Procs : CallCompare(p) \/ CallParse(p) \/ CallAvailable(p)

SpecPure == InitPure /\ [][NextPure]_vars

Returned(s, fn) == s.fn = fn /\ s.pc = "ret"

\* the first n components of the two releases are equal
SameLeading(v1, v2, n) == \A i \in 1..n : Comp(v1, i) = Comp(v2, i)

\* C27: compare_versions(v1, '~=', v2) is true iff v1 >= v2 and v1 has the
\* same major as v2 when v2 has two components, the same major and minor when
\* v2 has three or more; for a v2 of one component it is false.
C27_CompatibleRelease ==
    \A p \in Procs :
        LET s == proc[p] IN
        (Returned(s, "compare_versions") /\ s.operation = "~=") =>
            /\ Len(s.version2) = 1 => ~s.match
            /\ Len(s.version2) = 2 =>
                  (s.match <=> /\ VersionCmp(s.version1, s.version2) >= 0
                               /\ SameLeading(s.version1, s.version2, 1))
            /\ Len(s.version2) >= 3 =>
                  (s.match <=> /\ VersionCmp(s.version1, s.version2) >= 0
                               /\ SameLeading(s.version1, s.version2, 2))

\* a version is compatible with a four-component version whose third
\* component differs from its own
C27_Witness ==
    \E p \in Procs :
        LET s == proc[p] IN
        /\ Returned(s, "compare_versions") /\ s.operation = "~="
        /\ Len(s.version2) = 4 /\ s.match
        /\ Comp(s.version1, 3) # Comp(s.version2, 3)

\* C28 (as claimed): parsing any token whose version has a wildcard component
\* yields the operator ~= and the version with each wildcard replaced by 0.
C28_WildcardAlwaysCompatible ==
    \A p \in Procs :
        LET s == proc[p] IN
        (Returned(s, "parse_requirement_spec") /\ s.version.ver # None
            /\ HasStar(s.version.ver)) =>
            /\ s.parsed.op = "~="
            /\ s.parsed.ver = ZeroStars(s.version.ver)

\* C28 (amended): parsing a token whose version has a wildcard component
\* replaces each wildcard by 0; the operator becomes ~= only when it was ==,
\* any other operator is kept; a token that does not start with an operator
\* is returned as 'any' with its text unchanged.
C28_WildcardZeroedEqualBecomesCompatible ==
    \A p \in Procs :
        LET s == proc[p] IN
        (Returned(s, "parse_requirement_spec") /\ s.version.ver # None
            /\ HasStar(s.version.ver)) =>
            /\ s.version.op = "==" =>
                  s.parsed = [ver |-> ZeroStars(s.version.ver), op |-> "~="]
            /\ s.version.op \notin {"==", ""} =>
                  s.parsed = [ver |-> ZeroStars(s.version.ver), op |-> s.version.op]
            /\ s.version.op = "" =>
                  s.parsed = [ver |-> s.version.ver, op |-> "any"]

\* ==1.* has been parsed
C28_Witness ==
    \E p \in Procs :
        LET s == proc[p] IN
        /\ Returned(s, "parse_requirement_spec")
        /\ s.version = Tok("==", <<1, Star>>)
        /\ s.parsed = [ver |-> <<1, 0>>, op |-> "~="]

\* the listing is served from the file: it exists, is young and parses
ServedFromFile(s) == s.f.exists /\ s.young /\ s.f.parses

AvailableFile(name) == [exists |-> TRUE, parses |-> TRUE, listing |-> Available(name)]

\* C29 (as claimed): the listing on disk is returned without a query exactly
\* when the file exists, is young and parses; in every other case the index
\* is queried and the file is replaced by its answer.
C29_EveryMissReplacesFile ==
    \A p \in Procs :
        LET s == proc[p] IN
        Returned(s, "get_available_versions") =>
            /\ ServedFromFile(s) <=> ~s.result.queried
            /\ ServedFromFile(s) => s.result.versions = s.f.listing /\ s.result.file = s.f
            /\ ~ServedFromFile(s) => s.result.file = AvailableFile(s.name)

\* C29 (amended): the listing on disk is returned without a query exactly
\* when the file exists, is young and parses, and the file is left alone; in
\* every other case the index is queried: when it answers, its listing is
\* returned, and the file is replaced by it if the library's directory
\* exists and left as it was otherwise; when it does not answer, the empty
\* listing is returned and the file is left as it was.
C29_MissQueriesAndReplacesIfPossible ==
    \A p \in Procs :
        LET s == proc[p] IN
        Returned(s, "get_available_versions") =>
            /\ ServedFromFile(s) <=> ~s.result.queried
            /\ ServedFromFile(s) => s.result.versions = s.f.listing /\ s.result.file = s.f
            /\ (~ServedFromFile(s) /\ s.up) =>
                  /\ s.result.versions = Available(s.name)
                  /\ s.result.file = IF s.dir THEN AvailableFile(s.name) ELSE s.f
            /\ (~ServedFromFile(s) /\ ~s.up) =>
                  /\ s.result.versions = {}
                  /\ s.result.file = s.f

\* a young file that does not parse has been replaced by the index's listing
C29_Witness ==
    \E p \in Procs :
        LET s == proc[p] IN
        /\ Returned(s, "get_available_versions")
        /\ s.f.exists /\ s.young /\ ~s.f.parses /\ s.dir /\ s.up
        /\ s.result.queried
        /\ s.result.file = AvailableFile(s.name)

\* ============================================================ claims (cont.)
\* the {library: version} mapping of the list a resolution started from
RequirementsMap(s) == {<<r.lib, r.version>> : r \in Range(s.requirements)}

\* C21: a resolution restored from the Resolution Cache runs one round over
\* the cached list, reads no dependency manifest, applies no override rule
\* and does not write the Resolution Cache Entry, which stays the published
\* list it started from; it returns a version for exactly the libraries of
\* that list, each at the version cached for it.
C21_RestoredResolutionIsTheCachedList ==
    \A p \in Procs :
        LET s == proc[p]
            e == Dir(reqs, ReqLocation(s))
        IN  (s.usingCache /\ s.pc \notin {"load", "ir_read"}) =>
            /\ s.round <= 1
            /\ s.read = {}
            /\ s.processed_files = {}
            /\ s.pc \notin {"deps", "q_chk", "q_exists", "q_publish", "q_final"}
            /\ s.pc \in {"rm_unlink", "rm_rmdir"} => s.rmRet = "c_install"
            /\ is_cached(e) /\ e.data = s.requirements
            /\ DOMAIN s.combined_reqs = {r.lib : r \in Range(s.requirements)}
            /\ s.pc = "done" =>
                  /\ ~s.refresh
                  /\ s.resolved = ResolvedDependencies(s.locations)
                  /\ ResultMap(p) = RequirementsMap(s)

\* a resolution restored from the cache has returned a 1.0, whose manifest
\* a full resolution reads
C21_Witness ==
    \E p \in Procs :
        LET s == proc[p] IN
        /\ s.usingCache /\ s.pc = "done" /\ s.round = 1
        /\ <<"a", <<1, 0>>>> \in ResultMap(p)
        /\ Manifest("a", <<1, 0>>) # <<>>
        /\ Len(s.resolved) >= 2

\* the list is one constraint, and that an == constraint
SingleEquality(spec) == Len(spec) = 1 /\ parse_requirement_spec(spec[1]).op = "=="

\* C22: get_cache_version tries its sources in a fixed order.  A list that
\* is a single == constraint returns that version with no listing consulted,
\* and no other list takes that path; otherwise the versions materialized
\* locally are matched first, the remote listing is matched only when none
\* of them satisfies the list, and None is returned only when no version of
\* either listing satisfies it.
C22_SourcesInFixedOrder ==
    /\ [](\A p \in Procs :
            proc[p].pc = "c_match" => proc[p].seen = GlobCached(Lower(proc[p].cname)))
    /\ [][\A p \in Procs :
            LET s == proc[p]
                t == proc'[p]
                local  == {v \in s.seen : SatisfiesAll(s.cspec, v)}
                remote == {v \in Available(s.cname) : SatisfiesAll(s.cspec, v)}
            IN  /\ (s.pc = "c_ver" /\ t # s) =>
                      IF SingleEquality(s.cspec)
                      THEN /\ t.pc = "c_chk" /\ t.source = "quick"
                           /\ t.cver = s.cspec[1].ver
                           /\ t.seen = {}
                      ELSE t.pc = "gi_read"
                /\ (s.pc = "c_match" /\ t # s) =>
                      /\ ~SingleEquality(s.cspec)
                      /\ local # {} =>
                            t.pc = "c_chk" /\ t.source = "installed" /\ t.cver \in local
                      /\ (local = {} /\ remote # {}) =>
                            t.pc = "c_chk" /\ t.source = "available" /\ t.cver \in remote
                      /\ (local = {} /\ remote = {}) =>
                            t.pc = "after" /\ t.location = None]_vars

\* the remote listing gave the version after the versions materialized
\* locally, of which there are some, did not satisfy the list
C22_Witness ==
    \E p \in Procs :
        LET s == proc[p] IN
        /\ s.pc = "c_chk" /\ s.source = "available" /\ s.seen # {}
        /\ \A v \in s.seen : ~SatisfiesAll(s.cspec, v)

\* ------------------------------------------ specification (two runs in a row)
\* the requirement lines of the runs: two spellings of one library among them
TwoReqs ==
    { Req("a", "==", <<1, 0>>), Req("a", "==", <<1, 2, 5>>), Req("b", "any", None),
      Req("A", "==", <<2, 0>>) }

TwoLists ==
    {l \in UNION {[1..n -> TwoReqs] : n \in 1..MaxLiveReqs} :
        \A i, j \in 1..Len(l) : i # j => l[i] # l[j]}

Reverse(l) == [i \in 1..Len(l) |-> l[Len(l) + 1 - i]]

\* the requirements of the next run: the same lines, the same lines in
\* another order, or the first line only
NextInputs(input) == {input, Reverse(input), <<input[1]>>}

\* a run in any mode followed by a run in the same mode or in legacy mode
InitTwo ==
    /\ pkg \in InitialPkgs \ {<<>>}
    /\ reqs = <<>>
    /\ installedFile = <<>>
    /\ \E mode \in Modes, input \in TwoLists :
         \E nextMode \in {mode, "legacy"}, nextInput \in NextInputs(input) :
            proc = [p \in Procs |->
                      IF p = "p1"
                      THEN [Fresh(mode, NotRead, input, "load")
                               EXCEPT !.nextInput = nextInput, !.nextMode = nextMode]
                      ELSE Off]

SpecTwo == InitTwo /\ [][Next]_vars

\* C23: requirements whose library names differ only by letter case are
\* accumulated under one key of the Combined Requirement Set, and a finished
\* resolution holds one version for the library, whatever its spelling.
C23_OneKeyPerLibrary ==
    \A p \in Procs :
        LET s == proc[p] IN
        /\ \A k1, k2 \in DOMAIN s.combined_reqs : Lower(k1) = Lower(k2) => k1 = k2
        /\ s.pc = "done" =>
              \A i, j \in 1..Len(s.resolved) :
                  Lower(s.resolved[i].lib) = Lower(s.resolved[j].lib) => i = j

NoDuplicates(list) == \A i, j \in 1..Len(list) : list[i] = list[j] => i = j

\* C24: whatever requirements have been merged so far, in the input or from
\* manifests, each library's list in the Combined Requirement Set holds the
\* distinct constraints merged for that library, once each, in the order in
\* which they were first merged; the set has a key for exactly the libraries
\* merged.
C24_OrderedConstraintList ==
    \A p \in Procs :
        LET s == proc[p] IN
        s.pc \notin {"off", "load", "ir_read"} =>
            /\ DOMAIN s.combined_reqs = {r.lib : r \in Range(s.inserted)}
            /\ \A k \in DOMAIN s.combined_reqs :
                  /\ NoDuplicates(s.combined_reqs[k])
                  /\ s.combined_reqs[k] = FirstInserted(s.inserted, k)

\* a library has two constraints, one of which was merged a second time
\* after the other had been merged
C24_Witness ==
    \E p \in Procs :
        LET s == proc[p] IN
        /\ s.pc = "finish"
        /\ \E k \in DOMAIN s.combined_reqs :
              /\ Len(s.combined_reqs[k]) = 2
              /\ \E h, i, j \in 1..Len(s.inserted) :
                    /\ h < i /\ i < j
                    /\ s.inserted[h].lib = k /\ s.inserted[i].lib = k
                    /\ s.inserted[j] = s.inserted[h]
                    /\ s.inserted[i].spec # s.inserted[h].spec

\* the run and the run before it have the same Combined Requirement Set
SameCombined(s) ==
    combine_requirements(s.input, <<>>) = combine_requirements(s.prevInput, <<>>)

\* the address of the entry the run before this one published
PrevLocation(s) == RequirementsHash(s.prevInput, s.prevMode)

PublishedResolutions == {k \in DOMAIN reqs : is_cached(reqs[k])}

DependencyLibs(s, S) ==
    UNION {{r.lib : r \in Range(Manifest(s.locations[i].loc[1], s.locations[i].loc[2]))} :
              i \in {j \in 1..Len(s.locations) : s.locations[j].lib \in S}}

RECURSIVE TransitiveClosure(_, _)
TransitiveClosure(s, S) ==
    LET T == S \cup DependencyLibs(s, S) IN
    IF T = S THEN S ELSE TransitiveClosure(s, T)

InputLibs(s) == {r.lib : r \in Range(s.input)}

\* C26: after a successful resolution lib_metadata holds an entry for each
\* library of the transitive closure of the input requirements (the
\* input's libraries and, repeatedly, the libraries the manifests of the
\* resolved locations name), no entry for a library that is not in the
\* Combined Requirement Set, and each entry's version is the version of
\* the location the library was resolved to.
C26_MetadataIsTheClosure ==
    \A p \in Procs : LET s == proc[p] IN
        s.pc = "done" =>
            /\ TransitiveClosure(s, InputLibs(s)) \subseteq DOMAIN s.lib_metadata
            /\ DOMAIN s.lib_metadata \subseteq DOMAIN s.combined_reqs
            /\ \A i \in 1..Len(s.locations) :
                   /\ s.locations[i].lib \in DOMAIN s.lib_metadata
                   /\ s.lib_metadata[s.locations[i].lib].version = s.locations[i].loc[2]

\* ---------------------------------------------------------------------
\* Resolutions that find their Resolution Cache Entry published but not
\* readable: sentinel present and the resolution file missing, or present
\* with a content that json.load rejects.
BrokenEntries ==
    { [id |-> <<"init", 0>>, files |-> {".cached"}, data |-> <<>>],
      [id |-> <<"init", 0>>, files |-> ReqFiles, data |-> Unparsable] }

InitDisk ==
    /\ pkg \in InitialPkgs
    /\ installedFile = <<>>
    /\ \E mode \in Modes, input \in LiveLists :
         /\ reqs \in InitialReqs(input, mode)
                       \cup {Put(<<>>, RequirementsHash(input, mode), d) : d \in BrokenEntries}
         /\ proc = [p \in Procs |->
                      IF p = "p1" THEN Fresh(mode, NotRead, input, "load") ELSE Off]

SpecDisk == InitDisk /\ [][Next]_vars

\* the read of the entry failed: the sentinel was seen, DEPY_BYPASS_CACHE is
\* unset and the entry is one of the unreadable ones
ReadFailed(s) ==
    /\ s.pc \notin {"off", "load", "ir_read"}
    /\ s.bypass = ""
    /\ Dir(reqs, ReqLocation(s)) \in BrokenEntries

\* C30: a Resolution Cache Entry whose sentinel is present and whose
\* resolution file is missing or unparsable is treated as a cache miss: the
\* resolver runs the full resolution from the original requirements, and no
\* error reaches the caller (the resolution and, where an override rule
\* fired, its one re-run return; the passes do not go on until the
\* recursion limit).
C30_UnreadableEntryIsAMiss ==
    \A p \in Procs : LET s == proc[p] IN
        ReadFailed(s) =>
            /\ ~s.usingCache
            /\ s.requirements = s.input
            /\ s.pass <= 2

\* ================================================= the module map (import hook)
\* module names and the suffixes of the paths they map to ("" is a directory
\* without __init__.py)
Modules == {"m", "n"}

Suffixes == {".py", ".so", ""}

\* bool(path and path.endswith('.py') or path.endswith('.so'))
is_loadable(path) == (path # <<>> /\ path[2] = ".py") \/ path[2] = ".so"

\* dest_reqs.update(input_requirements)
UpdateAll(dest_reqs, input_requirements) ==
    [key \in DOMAIN dest_reqs \cup DOMAIN input_requirements |->
        IF key \in DOMAIN input_requirements
        THEN input_requirements[key] ELSE dest_reqs[key]]

\* _update_requirements: each key of the input is stored when the
\* destination lacks it or when the input's path is loadable
update_requirements(dest_reqs, input_requirements) ==
    [key \in DOMAIN dest_reqs \cup DOMAIN input_requirements |->
        IF key \in DOMAIN input_requirements
           /\ (key \notin DOMAIN dest_reqs \/ is_loadable(input_requirements[key]))
        THEN input_requirements[key] ELSE dest_reqs[key]]

\* the module maps one place can give (a sys.path entry after the marker,
\* a resolved package, a sys.path entry before the marker): each module
\* absent or at a path <<place, suffix>>
ModuleMaps(place) ==
    UNION {[S -> {<<place, x>> : x \in Suffixes}] : S \in SUBSET Modules}

\* _update_complete_requirements: self.complete_reqs = {}, then the maps
\* of the three places are merged in order
InitMap ==
    /\ pkg = <<>>
    /\ reqs = <<>>
    /\ installedFile = <<>>
    /\ \E a \in ModuleMaps("after"), r \in ModuleMaps("resolved"), b \in ModuleMaps("before") :
         proc = [p \in Procs |->
                   IF p = "p1"
                   THEN [fn |-> "_update_complete_requirements", pc |-> "update",
                         complete_reqs |-> <<>>, sources |-> <<a, r, b>>,
                         dest_reqs |-> <<>>, input_requirements |-> <<>>]
                   ELSE NoCall]

\* one call of _update_requirements(self.complete_reqs, ...); dest_reqs and
\* input_requirements keep the arguments of the last call
UpdateRequirements(p) ==
    LET s == proc[p] IN
    /\ s.pc = "update" /\ s.fn = "_update_complete_requirements"
    /\ proc' = [proc EXCEPT ![p] =
           [s EXCEPT !.complete_reqs = update_requirements(@, Head(s.sources)),
                     !.dest_reqs = s.complete_reqs,
                     !.input_requirements = Head(s.sources),
                     !.sources = Tail(@),
                     !.pc = IF Len(s.sources) = 1 THEN "ret" ELSE "update"]]
    /\ UNCHANGED <<pkg, reqs, installedFile>>

NextMap == \E p \in Procs : UpdateRequirements(p)

SpecMap == InitMap /\ [][NextMap]_vars

\* the last call of _update_requirements met key in both of its arguments
MetExisting(s, key) ==
    /\ s.fn = "_update_complete_requirements"
    /\ key \in DOMAIN s.dest_reqs /\ key \in DOMAIN s.input_requirements

\* C31 (as claimed): an entry already present in the destination is
\* overwritten by an incoming entry only if the incoming entry is loadable
\* and the existing entry is not; an existing loadable entry is never
\* replaced.
C31_LoadableEntryNeverReplaced ==
    \A p \in Procs, key \in Modules : LET s == proc[p] IN
        (MetExisting(s, key) /\ s.complete_reqs[key] # s.dest_reqs[key]) =>
            /\ is_loadable(s.input_requirements[key])
            /\ ~is_loadable(s.dest_reqs[key])

\* C31 (amended): an entry already present in the destination is
\* overwritten by an incoming entry exactly when the incoming entry is
\* loadable, whether or not the existing entry is; an incoming entry that is
\* not loadable never replaces an existing entry.
C31_ReplacedExactlyWhenIncomingLoadable ==
    \A p \in Procs, key \in Modules : LET s == proc[p] IN
        MetExisting(s, key) =>
            s.complete_reqs[key] =
                IF is_loadable(s.input_requirements[key])
                THEN s.input_requirements[key] ELSE s.dest_reqs[key]

\* a loadable entry of a resolved package was replaced by the loadable entry
\* of a sys.path entry before the marker
C31_Witness ==
    \E p \in Procs : LET s == proc[p] IN
        /\ MetExisting(s, "m") /\ s.pc = "ret"
        /\ is_loadable(s.dest_reqs["m"]) /\ s.dest_reqs["m"][1] = "resolved"
        /\ is_loadable(s.input_requirements["m"])
        /\ s.complete_reqs["m"] = s.input_requirements["m"]

\* the version of the location lib was resolved to
ResolvedVersion(s, lib) ==
    s.locations[CHOOSE i \in 1..Len(s.locations) : s.locations[i].lib = lib].loc[2]

\* C32: under strict mode, whenever a resolution returns successfully, every
\* library of the final Combined Requirement Set has a location, and the
\* version of that location satisfies every constraint of the library's
\* list in that set, the constraints that came from manifests included.
C32_StrictResultSatisfiesAll ==
    \A p \in Procs : LET s == proc[p] IN
        (s.mode = "strict" /\ s.pc = "done") =>
            \A lib \in DOMAIN s.combined_reqs :
                /\ lib \in Resolved(s)
                /\ SatisfiesAll(s.combined_reqs[lib], ResolvedVersion(s, lib))

\* a strict resolution returned after a manifest added a constraint to a
\* library that an earlier round had resolved to a version the constraint
\* excludes
C32_Witness ==
    \E p \in Procs : LET s == proc[p] IN
        /\ s.mode = "strict" /\ s.pc = "done" /\ ~s.usingCache /\ s.round >= 3
        /\ "b" \in Resolved(s)
        /\ ResolvedVersion(s, "b") = <<2, 9>>
        /\ Len(s.combined_reqs["b"]) >= 2
        /\ ~SatisfiesAll(s.combined_reqs["b"], <<3, 0>>)

\* C33: rule-driven re-resolution terminates in every configuration: the
\* nesting of _load_requirements calls stays below a bound (two calls
\* suffice: the one in which the rule fired and its re-run), also when
\* DEPY_BYPASS_CACHE is set or the Resolution Cache Entry could not be
\* written. In the model a run never enters call number MaxPasses.
C33_ReResolutionNestingBounded ==
    \A p \in Procs : proc[p].pass < MaxPasses

\* ---------------------------------------------------------------------
\* Two processes at work on the same library: one is asked for a version
\* that is not in the package cache (or for the one left without its
\* sentinel), the other for any version, with a 1.0 and b 2.9 published.
RaceInputs == { <<Req("a", "==", <<2, 0>>)>>, <<Req("a", "==", <<1, 2, 5>>)>> }

InitRace ==
    /\ pkg \in InitialPkgs \ {<<>>}
    /\ reqs = <<>>
    /\ installedFile = <<>>
    /\ \E input \in RaceInputs :
         proc = [p \in Procs |->
                   IF p = "p1" THEN Fresh("strict", NotRead, input, "load")
                   ELSE Fresh("strict", NotRead, <<Req("a", "any", None)>>, "load")]

SpecRace == InitRace /\ [][Next]_vars

\* the installed-version list a young .installed file hands to
\* get_cache_version (an empty one is not used)
InstalledList(name) == File(name).vers

\* C34: every version that has a published Cache Entry is in the
\* installed-version list that get_cache_version matches against: whenever
\* the .installed file of a library holds a list, the list has every
\* published version of the library, in every interleaving of processes
\* that publish entries and rebuild the file.
C34_InstalledListHasEveryPublished ==
    \A name \in Libs :
        (File(name).exists /\ InstalledList(name) # {}) =>
            GlobCached(name) \subseteq InstalledList(name)

\* C35: within one resolution (one call of _install_requirements, whose
\* processed_reqs memoizes the outcomes) storage.cache is invoked at most
\* once per (library, joined constraint string): no requirement is handed
\* to storage.cache a second time, and the outcome kept for a requirement,
\* a failure included, is the one storage.cache returned.
C35_CacheInvokedOncePerRequirement ==
    \A p \in Procs : LET s == proc[p] IN
        /\ ~s.again
        /\ \A k \in DOMAIN s.processed_reqs : k \in DOMAIN s.invoked
        /\ s.pc = "after" =>
              /\ <<s.lib, s.spec>> \in DOMAIN s.processed_reqs
              /\ s.processed_reqs[<<s.lib, s.spec>>] = s.location

\* a failure that storage.cache returned in an earlier round is reused
C35_Witness ==
    \E p \in Procs : LET s == proc[p] IN
        /\ s.pc = "after" /\ s.location = None
        /\ <<s.lib, s.spec>> \in DOMAIN s.invoked
        /\ s.invoked[<<s.lib, s.spec>>] < s.round

\* the libraries a resolution file lists with a version
ListedLibs(data) == {r.lib : r \in {x \in Range(data) : x.version # None}}

\* the step publishes the Resolution Cache Entry k: a new directory stands
\* at the location, with its sentinel
PublishesResolution(k) ==
    /\ k \in DOMAIN reqs'
    /\ is_cached(reqs'[k])
    /\ Dir(reqs, k).id # reqs'[k].id

\* C36: no Resolution Cache Entry is published for a resolution in which an
\* error was recorded: the process that publishes an entry has no error
\* recorded and a location for every library of its Combined Requirement
\* Set, and every published resolution file lists a version for each of
\* those libraries, the libraries its requirement list names among them.
C36_NoEntryForFailedResolution ==
    /\ [](\A k \in DOMAIN reqs :
             (is_cached(reqs[k]) /\ "resolution" \in reqs[k].files) =>
                 {r.lib : r \in Range(k[1])} \subseteq ListedLibs(reqs[k].data))
    /\ [][\A k \in DOMAIN reqs' :
             PublishesResolution(k) =>
                 \E p \in Procs : LET s == proc[p] IN
                     /\ s.pc = "q_publish" /\ ReqLocation(s) = k
                     /\ s.errors = <<>> /\ s.failed = {}
                     /\ Resolved(s) = DOMAIN s.combined_reqs
                     /\ ListedLibs(reqs'[k].data) = Resolved(s)]_vars

\* a resolution that resolved one library and failed on another has ended
\* in exit, and no entry stands at its location
C36_Witness ==
    \E p \in Procs : LET s == proc[p] IN
        /\ s.pc = "exit" /\ s.errors # <<>> /\ s.locations # <<>>
        /\ ~is_cached(Dir(reqs, ReqLocation(s)))

\* the steps of one call of _install_requirements, from its first round to
\* its error check
InLoop(s) ==
    /\ s.pc \notin {"off", "load", "ir_read", "done", "exit",
                    "q_chk", "q_exists", "q_publish", "q_final"}
    /\ s.pc \in {"rm_unlink", "rm_rmdir"} => s.rmRet = "c_install"

\* C37: errors are sticky across rounds: within one resolution a recorded
\* error is never cleared (the list of errors only grows), a resolution
\* with an error recorded does not return, and it ends in the fatal exit,
\* also when a later round has resolved the library the error is about.
C37_ErrorsAreSticky ==
    /\ [][\A p \in Procs :
             (InLoop(proc[p]) \/ proc[p].pc = "exit") =>
                 IsPrefix(proc[p].errors, proc'[p].errors)]_vars
    /\ [](\A p \in Procs :
             proc[p].errors # <<>> => proc[p].pc \notin {"done", "q_chk", "q_exists", "q_publish", "q_final"})
    /\ \A p \in Procs : (proc[p].errors # <<>>) ~> (proc[p].pc = "exit")

\* a resolution has ended in exit with an error recorded for a library
\* that a later round resolved
C37_Witness ==
    \E p \in Procs : LET s == proc[p] IN
        /\ s.pc = "exit" /\ s.round >= 2
        /\ \E i \in 1..Len(s.errors) : s.errors[i][1] \in Resolved(s)

\* C38: cache_requirements never rewrites a Resolution Cache Entry whose
\* sentinel is present: no step removes or changes the directory, or the
\* resolution file in it, of an entry that has its sentinel, whether the
\* file is readable or not and whatever dependencies are passed in.
C38_CachedResolutionNeverRewritten ==
    [][\A k \in DOMAIN reqs :
          is_cached(reqs[k]) => (k \in DOMAIN reqs' /\ reqs'[k] = reqs[k])]_vars

\* ======================================================== the index loops
\* most entries of DEPY_INDEXES, and most pip runs followed in one call
MaxIndexes == 2

MaxQueries == 4

DEFAULT_URL == "default"

\* os.environ.get('DEPY_INDEXES', '').split(';'): at least one entry, "" for
\* an empty one (an unset variable gives the single entry "")
IndexLists == SeqsUpTo({"", "x", "y"}, MaxIndexes)

\* _get_index: the default index, then the entries in order, then None
\* ("" here: the loops test the value for truth only); the token a file
\* under ~/.ssh may add to the URL is left out
get_index(other_indexes, offset) ==
    IF offset = 0 THEN DEFAULT_URL
    ELSE IF offset - 1 < Len(other_indexes) THEN other_indexes[offset]
    ELSE ""

\* one call of get_available_versions past its listing file, or of
\* _pip_install, at the head of its while loop
InitIndex ==
    /\ pkg = <<>>
    /\ reqs = <<>>
    /\ installedFile = <<>>
    /\ \E fn \in {"get_available_versions", "_pip_install"}, other_indexes \in IndexLists :
         proc = [p \in Procs |->
                   IF p = "p1"
                   THEN [fn |-> fn, pc |-> "while", other_indexes |-> other_indexes,
                         index_offset |-> 0, index |-> get_index(other_indexes, 0),
                         result |-> "", successful |-> FALSE, queried |-> <<>>]
                   ELSE NoCall]

\* while index and not result: pip index versions exits with an error
\* (CalledProcessError), or with status 0 and some output or none
QueryIndex(p) ==
    LET s == proc[p] IN
    /\ s.pc = "while" /\ s.fn = "get_available_versions"
    /\ Len(s.queried) < MaxQueries
    /\ IF s.index # "" /\ s.result = ""
       THEN \E out \in {"CalledProcessError", "Available versions: 1.0", ""} :
              proc' = [proc EXCEPT ![p] =
                  IF out = "CalledProcessError"
                  THEN [s EXCEPT !.queried = Append(@, s.index_offset),
                                 !.index_offset = @ + 1,
                                 !.index = get_index(s.other_indexes, s.index_offset + 1)]
                  ELSE [s EXCEPT !.queried = Append(@, s.index_offset), !.result = out]]
       ELSE proc' = [proc EXCEPT ![p] = [s EXCEPT !.pc = "ret"]]
    /\ UNCHANGED <<pkg, reqs, installedFile>>

\* while index and not successful: pip install succeeds or raises
PipInstall(p) ==
    LET s == proc[p] IN
    /\ s.pc = "while" /\ s.fn = "_pip_install"
    /\ Len(s.queried) < MaxQueries
    /\ IF s.index # "" /\ ~s.successful
       THEN \E ok \in BOOLEAN :
              proc' = [proc EXCEPT ![p] =
                  IF ok
                  THEN [s EXCEPT !.queried = Append(@, s.index_offset),
                                 !.index = "", !.successful = TRUE]
                  ELSE [s EXCEPT !.queried = Append(@, s.index_offset),
                                 !.index_offset = @ + 1,
                                 !.index = get_index(s.other_indexes, s.index_offset + 1)]]
       ELSE proc' = [proc EXCEPT ![p] = [s EXCEPT !.pc = "ret"]]
    /\ UNCHANGED <<pkg, reqs, installedFile>>

NextIndex == \E p \in Procs : QueryIndex(p) \/ PipInstall(p)

SpecIndex == InitIndex /\ [][NextIndex]_vars

InIndexLoop(s) == s.fn \in {"get_available_versions", "_pip_install"}

\* C39: get_available_versions and _pip_install terminate for every
\* behaviour of the pip command: each configured index (the default one,
\* then the DEPY_INDEXES entries in order) is queried at most once, so a
\* call runs pip at most once per index.
C39_EachIndexQueriedAtMostOnce ==
    \A p \in Procs : LET s == proc[p] IN
        InIndexLoop(s) =>
            /\ \A i, j \in 1..Len(s.queried) : i # j => s.queried[i] # s.queried[j]
            /\ Len(s.queried) <= 1 + Len(s.other_indexes)

====
